---- MODULE Spec2Model ----
(***************************************************************************)
(* Meeting-room display firmware (device/src/main.cpp, api_client.cpp,     *)
(* ui_manager.cpp): the device runtime as a state machine.                 *)
(*                                                                         *)
(* Strings that the code inspects character by character (the server URL,  *)
(* the setup PIN) are sequences; opaque strings are TLA+ strings.          *)
(***************************************************************************)
EXTENDS Integers, Sequences, FiniteSets, TLC

(***************************************************************************)
(* Program constants                                                       *)
(***************************************************************************)
SCREEN_WIDTH == 320
SCREEN_HEIGHT == 240
STATUS_POLL_INTERVAL == 30000
PING_INTERVAL == 60000
SCREEN_TIMEOUT_MS == 120000
CONNECTION_RETRY_INTERVAL == 30000
FIRMWARE_CHECK_INTERVAL == 300000
\* Booking upcomingBookings[3]
MaxUpcoming == 3
\* int quickBookDurations[4]
MaxDurations == 4
\* Button _buttons[8]
MaxButtons == 8
\* the reboot count at which checkBootLoop reports a boot loop
BOOT_LOOP_THRESHOLD == 3

(***************************************************************************)
(* Bounds of the model                                                     *)
(***************************************************************************)
\* the time that passes between two loop iterations when time passes (ms)
TimeStep == 30001
\* the same for a device nobody touches (ms)
LongStep == 300001
\* the number of such steps explored after each boot
MaxTicks == 4

(***************************************************************************)
(* Data: Booking, Room, RoomStatus (api_client.h)                          *)
(***************************************************************************)
mkBooking(id, title) == [id |-> id, title |-> title, isValid |-> id # ""]

\* a Booking slot the codec never wrote (default-constructed strings)
NoBooking == [id |-> "", title |-> "", isValid |-> FALSE]

Min(a, b) == IF a < b THEN a ELSE b

\* int defaultDurations[] = {30, 60, 90, 120}
defaultDurations == <<30, 60, 90, 120>>

\* JSON values of a duration array: an integer, or anything else (a string,
\* null, a fraction)
jInt(v) == [isInt |-> TRUE, val |-> v]
jOther == [isInt |-> FALSE, val |-> 0]

\* a JSON object that is absent or null
jNull == [isNull |-> TRUE]

\* ArduinoJson: (variant | dflt) is the variant when it holds an integer, else dflt
orDefault(j, dflt) == IF j.isInt THEN j.val ELSE dflt

\* Room as parseRoom initialises it: invalid, the default durations
defaultRoom ==
    [id |-> "", name |-> "", isValid |-> FALSE,
     quickBookDurations |-> defaultDurations, quickBookDurationCount |-> 4]

\* ApiClient::parseRoom: obj is jNull or [isNull, id, name, hasDurations,
\* quickBookDurations], quickBookDurations a sequence of JSON values that
\* counts when hasDurations (the key is present and not null)
parseRoom(obj) ==
    IF obj.isNull THEN defaultRoom
    ELSE LET base == [defaultRoom EXCEPT !.id = obj.id, !.name = obj.name,
                                         !.isValid = obj.id # ""]
             arr  == obj.quickBookDurations
             n    == Min(4, Len(arr))
         IN  IF ~obj.hasDurations THEN base
             ELSE [base EXCEPT
                     !.quickBookDurations =
                         [i \in 1..MaxDurations |->
                             IF i <= n THEN orDefault(arr[i], 30)
                             ELSE defaultDurations[i]],
                     !.quickBookDurationCount = n]

\* ApiClient::parseBooking: obj is jNull or [isNull, id, title]
parseBooking(obj) ==
    IF obj.isNull THEN NoBooking ELSE mkBooking(obj.id, obj.title)

\* a Booking nothing was assigned to: empty strings, and a bool whose value
\* is whatever the memory held (junk)
rawBooking(junk) == [NoBooking EXCEPT !.isValid = junk]

\* the RoomStatus object before anything is parsed into it; isAvailable and
\* the isValid of the bookings are uninitialised bools, so their value is
\* whatever the stack held (junk); a global RoomStatus is zeroed (junk FALSE)
blankStatus(junk) ==
    [isValid |-> FALSE, isAvailable |-> junk, upcomingCount |-> 0,
     room |-> [id |-> "", name |-> "", isValid |-> FALSE,
               quickBookDurations |-> defaultDurations,
               quickBookDurationCount |-> 0],
     currentBooking |-> rawBooking(junk),
     upcomingBookings |-> [i \in 1..MaxUpcoming |-> rawBooking(junk)],
     errorMessage |-> ""]

\* number of valid bookings among the first n parsed slots
RECURSIVE countValid(_, _)
countValid(slots, n) ==
    IF n = 0 THEN 0
    ELSE countValid(slots, n - 1) + (IF slots[n].isValid THEN 1 ELSE 0)

\* ApiClient::makeRequest: "" without URL or token, else the server's reply;
\* a reply of kind "none" stands for a transport failure, a timeout, a
\* non-2xx code or an empty body
makeRequest(apiUrl, deviceToken, reply) ==
    IF Len(apiUrl) = 0 \/ deviceToken = "" THEN [kind |-> "none"] ELSE reply

\* getRoomStatus going on to read the document after a parse error
getRoomStatus_ignoresParseError(reply, junk) ==
    LET status == blankStatus(junk)
    IN  CASE reply.kind = "none" ->
                [status EXCEPT !.errorMessage = "Failed to connect to server"]
          [] reply.kind = "error" ->
                [status EXCEPT !.errorMessage = reply.error]
          [] OTHER ->
                LET room  == parseRoom(reply.room)
                    n     == Min(3, Len(reply.upcomingBookings))
                    slots == [i \in 1..MaxUpcoming |->
                                IF i <= n THEN parseBooking(reply.upcomingBookings[i])
                                ELSE rawBooking(junk)]
                IN  [status EXCEPT
                       !.room = room,
                       !.isAvailable = reply.isAvailable,
                       !.currentBooking = parseBooking(reply.currentBooking),
                       !.upcomingBookings = slots,
                       !.upcomingCount = countValid(slots, n),
                       !.isValid = room.isValid]

\* ApiClient::getRoomStatus on the reply makeRequest returned
getRoomStatus(reply, junk) ==
    LET status == blankStatus(junk)
    IN  CASE reply.kind = "none" ->
                [status EXCEPT !.errorMessage = "Failed to connect to server"]
          [] reply.kind = "garbage" ->
                [status EXCEPT !.errorMessage = "Invalid response from server"]
          [] reply.kind = "error" ->
                [status EXCEPT !.errorMessage = reply.error]
          [] OTHER ->
                LET room  == parseRoom(reply.room)
                    n     == Min(3, Len(reply.upcomingBookings))
                    slots == [i \in 1..MaxUpcoming |->
                                IF i <= n THEN parseBooking(reply.upcomingBookings[i])
                                ELSE rawBooking(junk)]
                IN  [status EXCEPT
                       !.room = room,
                       !.isAvailable = reply.isAvailable,
                       !.currentBooking = parseBooking(reply.currentBooking),
                       !.upcomingBookings = slots,
                       !.upcomingCount = countValid(slots, n),
                       !.isValid = room.isValid]

(***************************************************************************)
(* roomStatusesAreEqual (main.cpp)                                         *)
(***************************************************************************)
\* the for loop over the upcoming ids, from index i (0-based as in the code)
RECURSIVE upcomingIdsEqualFrom(_, _, _)
upcomingIdsEqualFrom(first, second, i) ==
    IF ~(i < first.upcomingCount /\ i < 3) THEN TRUE
    ELSE IF first.upcomingBookings[i + 1].id # second.upcomingBookings[i + 1].id
         THEN FALSE
         ELSE upcomingIdsEqualFrom(first, second, i + 1)

\* roomStatusesAreEqual without the comparison of the room names
roomStatusesAreEqual_noNameCheck(first, second) ==
    IF ~first.isValid \/ ~second.isValid THEN FALSE
    ELSE IF first.isAvailable # second.isAvailable THEN FALSE
    ELSE IF first.upcomingCount # second.upcomingCount THEN FALSE
    ELSE upcomingIdsEqualFrom(first, second, 0)

\* roomStatusesAreEqual testing the validity of its first argument only
roomStatusesAreEqual_firstValidOnly(first, second) ==
    IF ~first.isValid THEN FALSE
    ELSE IF first.isAvailable # second.isAvailable THEN FALSE
    ELSE IF first.room.name # second.room.name THEN FALSE
    ELSE IF first.upcomingCount # second.upcomingCount THEN FALSE
    ELSE upcomingIdsEqualFrom(first, second, 0)

\* roomStatusesAreEqual without the comparison of the availability
roomStatusesAreEqual_ignoresAvailability(first, second) ==
    IF ~first.isValid \/ ~second.isValid THEN FALSE
    ELSE IF first.room.name # second.room.name THEN FALSE
    ELSE IF first.upcomingCount # second.upcomingCount THEN FALSE
    ELSE upcomingIdsEqualFrom(first, second, 0)

roomStatusesAreEqual(first, second) ==
    IF ~first.isValid \/ ~second.isValid THEN FALSE
    ELSE IF first.isAvailable # second.isAvailable THEN FALSE
    ELSE IF first.room.name # second.room.name THEN FALSE
    ELSE IF first.upcomingCount # second.upcomingCount THEN FALSE
    ELSE upcomingIdsEqualFrom(first, second, 0)

(***************************************************************************)
(* Variables                                                               *)
(***************************************************************************)
VARIABLES
    pc,       \* where the firmware is: "setup", or the part of loop() to run next
    now,      \* millis()
    wifiUp,   \* WiFi.status() == WL_CONNECTED
    env,      \* who acts on the device in this run (EnvKinds)
    dev,      \* the globals of main.cpp, the ApiClient and UIManager fields,
              \* the LED, the Preferences store, and the log of the running step
    boots,    \* history: setup() runs since the last valid status fetch, the last
              \* entry into Safe Mode or the last factory reset
    picked,   \* history: the duration of the last QuickBookMenu selection
    callIn,   \* a function called on its own: its arguments
    callOut   \* a function called on its own: its results, <<>> before the call

vars == <<pc, now, wifiUp, dev, env, boots, picked, callIn, callOut>>

(***************************************************************************)
(* UIManager (ui_manager.cpp)                                              *)
(***************************************************************************)
Button(x, y, w, h, label) == [x |-> x, y |-> y, w |-> w, h |-> h, label |-> label]

\* UIManager::addButton
addButton(buttons, b) == IF Len(buttons) < MaxButtons THEN Append(buttons, b) ELSE buttons

\* the loop of checkButtonPress from index i (0-based)
RECURSIVE checkButtonPressFrom(_, _, _, _)
checkButtonPressFrom(buttons, touchX, touchY, i) ==
    IF ~(i < Len(buttons)) THEN -1
    ELSE LET btn == buttons[i + 1]
         IN  IF /\ touchX >= btn.x /\ touchX <= btn.x + btn.w
                /\ touchY >= btn.y /\ touchY <= btn.y + btn.h
             THEN i
             ELSE checkButtonPressFrom(buttons, touchX, touchY, i + 1)

\* UIManager::checkButtonPress
checkButtonPress(buttons, touchX, touchY) ==
    checkButtonPressFrom(buttons, touchX, touchY, 0)

\* what a screen draw leaves on the display
\* (status: <<>> or the one RoomStatus drawn; n: the duration drawn, or 0)
Display(screen, text, retry, status, n) ==
    [screen |-> screen, text |-> text, retry |-> retry, status |-> status, n |-> n]

Drawn(d, uiState, buttons, display) ==
    [d EXCEPT !.uiState = uiState, !.buttons = buttons, !.display = display]

\* UIManager::showLoading (showConnecting is showLoading with its own text)
showLoading(d, message) ==
    Drawn(d, "UI_LOADING", <<>>, Display("Loading", message, FALSE, <<>>, 0))

\* UIManager::showWiFiSetup
showWiFiSetup(d) ==
    Drawn(d, "UI_WIFI_SETUP", <<>>, Display("WiFiSetup", "", FALSE, <<>>, 0))

\* UIManager::showTokenSetup: the text is the address shown
showTokenSetup(d, ipAddress) ==
    Drawn(d, "UI_TOKEN_SETUP", <<>>, Display("TokenSetup", ipAddress, FALSE, <<>>, 0))

\* showError registering Retry after the buttons of the screen it replaces
showError_keepsButtons(d, message, retry) ==
    Drawn(d, "UI_ERROR",
          addButton(d.buttons,
                    Button(SCREEN_WIDTH \div 2 - 60, SCREEN_HEIGHT - 50, 120, 40, "Retry")),
          Display("Error", message, retry, <<>>, 0))

\* UIManager::showError
showError(d, message, retry) ==
    Drawn(d, "UI_ERROR",
          addButton(<<>>, Button(SCREEN_WIDTH \div 2 - 60, SCREEN_HEIGHT - 50, 120, 40, "Retry")),
          Display("Error", message, retry, <<>>, 0))

\* UIManager::showBookingResult: _currentState is not assigned
showBookingResult(d, success, message) ==
    [Drawn(d, d.uiState,
           addButton(<<>>, Button(SCREEN_WIDTH \div 2 - 60, SCREEN_HEIGHT - 50, 120, 40, "OK")),
           Display("BookingResult", message, FALSE, <<>>, 0))
       EXCEPT !.log = Append(@, [op |-> "showBookingResult", n |-> 0, flag |-> success])]

\* UIManager::showRoomStatus
showRoomStatus(d, status) ==
    LET book    == IF status.isAvailable
                   THEN addButton(<<>>, Button(12, 50, SCREEN_WIDTH - 24, 70, "Book"))
                   ELSE <<>>
        buttons == addButton(book, Button(SCREEN_WIDTH - 40, SCREEN_HEIGHT - 35, 30, 30, "Refresh"))
    IN  [Drawn(d, "UI_ROOM_STATUS", buttons, Display("RoomStatus", "", FALSE, <<status>>, 0))
           EXCEPT !.log = Append(@, [op |-> "showRoomStatus", n |-> 0, flag |-> FALSE])]

\* what getQuickBookDurationCount() and getQuickBookDuration(i) answer after
\* showQuickBookMenu(status): the durations of the status the menu was shown for
keepQuickBookDurations(d, status) ==
    [d EXCEPT !.qbDurations = status.room.quickBookDurations,
              !.qbCount = status.room.quickBookDurationCount]

getQuickBookDurationCount(d) == d.qbCount

getQuickBookDuration(d, index) == d.qbDurations[index + 1]

\* UIManager::showQuickBookMenu: four duration buttons in a 2x2 grid, then Cancel
showQuickBookMenu(d, status) ==
    LET btnWidth == 145
        btnHeight == 50
        gap == 10
        startX == 12
        startY == 75
        b1 == addButton(<<>>, Button(startX, startY, btnWidth, btnHeight, "15"))
        b2 == addButton(b1, Button(startX + btnWidth + gap, startY, btnWidth, btnHeight, "30"))
        b3 == addButton(b2, Button(startX, startY + btnHeight + gap, btnWidth, btnHeight, "45"))
        b4 == addButton(b3, Button(startX + btnWidth + gap, startY + btnHeight + gap,
                                   btnWidth, btnHeight, "60"))
        b5 == addButton(b4, Button(12, SCREEN_HEIGHT - 45, SCREEN_WIDTH - 24, 38, "Cancel"))
    IN  Drawn(keepQuickBookDurations(d, status), "UI_QUICK_BOOK", b5,
              Display("QuickBook", "", FALSE, <<>>, 0))

\* UIManager::showBookingConfirm
showBookingConfirm(d, duration) ==
    LET btnY == SCREEN_HEIGHT - 55
        b1 == addButton(<<>>, Button(12, btnY, 145, 45, "Cancel"))
        b2 == addButton(b1, Button(163, btnY, 145, 45, "Confirm"))
    IN  Drawn(d, "UI_BOOKING_CONFIRM", b2, Display("BookingConfirm", "", FALSE, <<>>, duration))

\* UIManager::setBacklight
setBacklight(d, on) == [d EXCEPT !.backlight = on]

(***************************************************************************)
(* Device state: globals of main.cpp, ApiClient, LED, Preferences          *)
(***************************************************************************)
\* SETUP_PIN, the default setup PIN
SETUP_PIN == <<1, 2, 3, 4>>

\* the IP address WiFi.localIP() reports
LocalIP == "ip"

\* an entry of the step log: an API call, a room-status draw, a restart
Event(op, n, flag) == [op |-> op, n |-> n, flag |-> flag]

Logged(d, op, n, flag) == [d EXCEPT !.log = Append(@, Event(op, n, flag))]

\* the Preferences namespace after preferences.clear(), or on a new device
ClearedPrefs ==
    [bootCount |-> 0, api_url |-> <<>>, device_token |-> "", setup_pin |-> SETUP_PIN,
     timezone |-> "UTC0"]

\* RAM after a reset: the initialisers of main.cpp's globals and the
\* constructors of ApiClient and UIManager; the Preferences store is kept
Ram(prefs) ==
    [wifiConnected |-> FALSE, deviceConfigured |-> FALSE, webServerRunning |-> FALSE,
     setupMode |-> FALSE, screenOn |-> TRUE, connectionLost |-> FALSE,
     forceRedraw |-> TRUE, safeMode |-> FALSE,
     lastStatusUpdate |-> 0, lastPing |-> 0, lastTouchTime |-> 0,
     lastActivityTime |-> 0, lastConnectionRetry |-> 0, lastFirmwareCheck |-> 0,
     wifiLostTime |-> 0, wifiRetryCount |-> 0, selectedDuration |-> 0,
     currentStatus |-> blankStatus(FALSE), lastStatus |-> blankStatus(FALSE),
     sessionToken |-> "", currentSetupPin |-> SETUP_PIN,
     apiUrl |-> <<>>, deviceToken |-> "",
     uiState |-> "UI_LOADING", buttons |-> <<>>,
     display |-> Display("None", "", FALSE, <<>>, 0),
     qbDurations |-> defaultDurations, qbCount |-> 0,
     backlight |-> TRUE, led |-> "off",
     restarted |-> FALSE, log |-> <<>>,
     prefs |-> prefs]

\* ESP.restart(): nothing after it runs
espRestart(d) == [Logged(d, "restart", 0, FALSE) EXCEPT !.restarted = TRUE]

setLedColor(d, available) == [d EXCEPT !.led = IF available THEN "green" ELSE "red"]

setLedOff(d) == [d EXCEPT !.led = "off"]

\* ApiClient::setApiUrl: one trailing slash is removed
setApiUrl(d, url) ==
    [d EXCEPT !.apiUrl = IF Len(url) > 0 /\ url[Len(url)] = "/"
                         THEN SubSeq(url, 1, Len(url) - 1) ELSE url]

setDeviceToken(d, token) == [d EXCEPT !.deviceToken = token]

\* ApiClient::isConfigured
isConfigured(d) == Len(d.apiUrl) > 0 /\ d.deviceToken # ""

\* checkBootLoop entering Safe Mode only above the threshold
checkBootLoop_aboveThreshold(d) ==
    LET bootCount == d.prefs.bootCount
    IN  IF bootCount > BOOT_LOOP_THRESHOLD
        THEN [d EXCEPT !.prefs.bootCount = 0, !.safeMode = TRUE]
        ELSE [d EXCEPT !.prefs.bootCount = bootCount + 1, !.safeMode = FALSE]

\* checkBootLoop: the new state, with safeMode set to the value returned
checkBootLoop(d) ==
    LET bootCount == d.prefs.bootCount
    IN  IF bootCount >= BOOT_LOOP_THRESHOLD
        THEN [d EXCEPT !.prefs.bootCount = 0, !.safeMode = TRUE]
        ELSE [d EXCEPT !.prefs.bootCount = bootCount + 1, !.safeMode = FALSE]

clearBootCount(d) == [d EXCEPT !.prefs.bootCount = 0]

\* loadConfig
loadConfig(d) ==
    [setDeviceToken(setApiUrl(d, d.prefs.api_url), d.prefs.device_token)
       EXCEPT !.currentSetupPin = d.prefs.setup_pin]

\* saveConfig
saveConfig(d) ==
    [d EXCEPT !.prefs.api_url = d.apiUrl, !.prefs.device_token = d.deviceToken]

\* setupWebServer
setupWebServer(d) == [d EXCEPT !.webServerRunning = TRUE]

(***************************************************************************)
(* updateRoomStatus                                                        *)
(***************************************************************************)
\* 1 when an API method's HTTP request leaves the device (makeRequest), else 0
Sent(d) == IF isConfigured(d) THEN 1 ELSE 0

\* updateRoomStatus redrawing after every valid fetch
updateRoomStatus_alwaysRedraw(d, t, reply, junk) ==
    LET status == getRoomStatus(makeRequest(d.apiUrl, d.deviceToken, reply), junk)
        d1 == [Logged(d, "status", Sent(d), d.forceRedraw)
                 EXCEPT !.currentStatus = status, !.lastStatusUpdate = t]
    IN  IF status.isValid
        THEN LET d2 == clearBootCount([d1 EXCEPT !.setupMode = FALSE,
                                                 !.connectionLost = FALSE])
                 d3 == [showRoomStatus(d2, d2.currentStatus) EXCEPT !.forceRedraw = FALSE]
             IN  setLedColor([d3 EXCEPT !.lastStatus = d3.currentStatus],
                             d3.currentStatus.isAvailable)
        ELSE IF ~isConfigured(d1)
             THEN showTokenSetup(setLedOff([d1 EXCEPT !.deviceConfigured = FALSE,
                                                      !.setupMode = TRUE]),
                                 LocalIP)
             ELSE showError(setLedOff([d1 EXCEPT !.connectionLost = TRUE,
                                                 !.lastConnectionRetry = t]),
                            IF status.errorMessage # "" THEN status.errorMessage
                            ELSE "Cannot reach server",
                            TRUE)

\* updateRoomStatus taking every failure for a missing configuration
updateRoomStatus_noConfiguredCheck(d, t, reply, junk) ==
    LET status == getRoomStatus(makeRequest(d.apiUrl, d.deviceToken, reply), junk)
        d1 == [Logged(d, "status", Sent(d), d.forceRedraw)
                 EXCEPT !.currentStatus = status, !.lastStatusUpdate = t]
    IN  IF status.isValid
        THEN LET d2 == clearBootCount([d1 EXCEPT !.setupMode = FALSE,
                                                 !.connectionLost = FALSE])
                 d3 == IF d2.forceRedraw
                          \/ ~roomStatusesAreEqual(d2.currentStatus, d2.lastStatus)
                       THEN [showRoomStatus(d2, d2.currentStatus)
                               EXCEPT !.forceRedraw = FALSE]
                       ELSE d2
             IN  setLedColor([d3 EXCEPT !.lastStatus = d3.currentStatus],
                             d3.currentStatus.isAvailable)
        ELSE showTokenSetup(setLedOff([d1 EXCEPT !.deviceConfigured = FALSE,
                                                 !.setupMode = TRUE]),
                            LocalIP)

\* updateRoomStatus taking every failure for a lost connection
updateRoomStatus_alwaysBackoff(d, t, reply, junk) ==
    LET status == getRoomStatus(makeRequest(d.apiUrl, d.deviceToken, reply), junk)
        d1 == [Logged(d, "status", Sent(d), d.forceRedraw)
                 EXCEPT !.currentStatus = status, !.lastStatusUpdate = t]
    IN  IF status.isValid
        THEN LET d2 == clearBootCount([d1 EXCEPT !.setupMode = FALSE,
                                                 !.connectionLost = FALSE])
                 d3 == IF d2.forceRedraw
                          \/ ~roomStatusesAreEqual(d2.currentStatus, d2.lastStatus)
                       THEN [showRoomStatus(d2, d2.currentStatus)
                               EXCEPT !.forceRedraw = FALSE]
                       ELSE d2
             IN  setLedColor([d3 EXCEPT !.lastStatus = d3.currentStatus],
                             d3.currentStatus.isAvailable)
        ELSE showError(setLedOff([d1 EXCEPT !.connectionLost = TRUE,
                                            !.lastConnectionRetry = t]),
                       IF status.errorMessage # "" THEN status.errorMessage
                       ELSE "Cannot reach server",
                       TRUE)

\* updateRoomStatus leaving the boot counter alone after a valid fetch
updateRoomStatus_keepsBootCount(d, t, reply, junk) ==
    LET status == getRoomStatus(makeRequest(d.apiUrl, d.deviceToken, reply), junk)
        d1 == [Logged(d, "status", Sent(d), d.forceRedraw)
                 EXCEPT !.currentStatus = status, !.lastStatusUpdate = t]
    IN  IF status.isValid
        THEN LET d2 == [d1 EXCEPT !.setupMode = FALSE, !.connectionLost = FALSE]
                 d3 == IF d2.forceRedraw
                          \/ ~roomStatusesAreEqual(d2.currentStatus, d2.lastStatus)
                       THEN [showRoomStatus(d2, d2.currentStatus)
                               EXCEPT !.forceRedraw = FALSE]
                       ELSE d2
             IN  setLedColor([d3 EXCEPT !.lastStatus = d3.currentStatus],
                             d3.currentStatus.isAvailable)
        ELSE IF ~isConfigured(d1)
             THEN showTokenSetup(setLedOff([d1 EXCEPT !.deviceConfigured = FALSE,
                                                      !.setupMode = TRUE]),
                                 LocalIP)
             ELSE showError(setLedOff([d1 EXCEPT !.connectionLost = TRUE,
                                                 !.lastConnectionRetry = t]),
                            IF status.errorMessage # "" THEN status.errorMessage
                            ELSE "Cannot reach server",
                            TRUE)

\* updateRoomStatus without the dirty check: it redraws only when forced
updateRoomStatus_redrawOnlyWhenForced(d, t, reply, junk) ==
    LET status == getRoomStatus(makeRequest(d.apiUrl, d.deviceToken, reply), junk)
        d1 == [Logged(d, "status", Sent(d), d.forceRedraw)
                 EXCEPT !.currentStatus = status, !.lastStatusUpdate = t]
    IN  IF status.isValid
        THEN LET d2 == clearBootCount([d1 EXCEPT !.setupMode = FALSE,
                                                 !.connectionLost = FALSE])
                 d3 == IF d2.forceRedraw
                       THEN [showRoomStatus(d2, d2.currentStatus)
                               EXCEPT !.forceRedraw = FALSE]
                       ELSE d2
             IN  setLedColor([d3 EXCEPT !.lastStatus = d3.currentStatus],
                             d3.currentStatus.isAvailable)
        ELSE IF ~isConfigured(d1)
             THEN showTokenSetup(setLedOff([d1 EXCEPT !.deviceConfigured = FALSE,
                                                      !.setupMode = TRUE]),
                                 LocalIP)
             ELSE showError(setLedOff([d1 EXCEPT !.connectionLost = TRUE,
                                                 !.lastConnectionRetry = t]),
                            IF status.errorMessage # "" THEN status.errorMessage
                            ELSE "Cannot reach server",
                            TRUE)

\* updateRoomStatus entering setup mode without clearing deviceConfigured
updateRoomStatus_staysConfigured(d, t, reply, junk) ==
    LET status == getRoomStatus(makeRequest(d.apiUrl, d.deviceToken, reply), junk)
        d1 == [Logged(d, "status", Sent(d), d.forceRedraw)
                 EXCEPT !.currentStatus = status, !.lastStatusUpdate = t]
    IN  IF status.isValid
        THEN LET d2 == clearBootCount([d1 EXCEPT !.setupMode = FALSE,
                                                 !.connectionLost = FALSE])
                 d3 == IF d2.forceRedraw
                          \/ ~roomStatusesAreEqual(d2.currentStatus, d2.lastStatus)
                       THEN [showRoomStatus(d2, d2.currentStatus)
                               EXCEPT !.forceRedraw = FALSE]
                       ELSE d2
             IN  setLedColor([d3 EXCEPT !.lastStatus = d3.currentStatus],
                             d3.currentStatus.isAvailable)
        ELSE IF ~isConfigured(d1)
             THEN showTokenSetup(setLedOff([d1 EXCEPT !.setupMode = TRUE]),
                                 LocalIP)
             ELSE showError(setLedOff([d1 EXCEPT !.connectionLost = TRUE,
                                                 !.lastConnectionRetry = t]),
                            IF status.errorMessage # "" THEN status.errorMessage
                            ELSE "Cannot reach server",
                            TRUE)

\* updateRoomStatus at millis() = t, the server answering reply
updateRoomStatus(d, t, reply, junk) ==
    LET status == getRoomStatus(makeRequest(d.apiUrl, d.deviceToken, reply), junk)
        d1 == [Logged(d, "status", Sent(d), d.forceRedraw)
                 EXCEPT !.currentStatus = status, !.lastStatusUpdate = t]
    IN  IF status.isValid
        THEN LET d2 == clearBootCount([d1 EXCEPT !.setupMode = FALSE,
                                                 !.connectionLost = FALSE])
                 d3 == IF d2.forceRedraw
                          \/ ~roomStatusesAreEqual(d2.currentStatus, d2.lastStatus)
                       THEN [showRoomStatus(d2, d2.currentStatus)
                               EXCEPT !.forceRedraw = FALSE]
                       ELSE d2
             IN  setLedColor([d3 EXCEPT !.lastStatus = d3.currentStatus],
                             d3.currentStatus.isAvailable)
        ELSE IF ~isConfigured(d1)
             THEN showTokenSetup(setLedOff([d1 EXCEPT !.deviceConfigured = FALSE,
                                                      !.setupMode = TRUE]),
                                 LocalIP)
             ELSE showError(setLedOff([d1 EXCEPT !.connectionLost = TRUE,
                                                 !.lastConnectionRetry = t]),
                            IF status.errorMessage # "" THEN status.errorMessage
                            ELSE "Cannot reach server",
                            TRUE)

(***************************************************************************)
(* Firmware update (main.cpp)                                              *)
(***************************************************************************)
\* ApiClient::checkForFirmwareUpdate taking an unparsable body for an offer
checkFirmwareReply_trustsGarbage(reply) ==
    IF reply.kind = "none" THEN <<FALSE, FALSE>>
    ELSE IF reply.kind = "garbage" THEN <<TRUE, TRUE>>
    ELSE <<reply.updateAvailable, reply.updateAvailable /\ reply.hasLatestFirmware>>

\* ApiClient::checkForFirmwareUpdate on the reply makeRequest returned:
\* <<updateAvailable, firmware.isValid>>
checkFirmwareReply(reply) ==
    IF reply.kind # "ok" THEN <<FALSE, FALSE>>
    ELSE <<reply.updateAvailable, reply.updateAvailable /\ reply.hasLatestFirmware>>

\* performFirmwareUpdate restarting after a failed download as well
performFirmwareUpdate_restartOnFailure(d, ret) ==
    LET d1 == Logged([showLoading(d, "Updating firmware") EXCEPT !.led = "blue"],
                     "ota", 0, FALSE)
        back(x) == IF x.currentStatus.isValid
                   THEN setLedColor(showRoomStatus(x, x.currentStatus),
                                    x.currentStatus.isAvailable)
                   ELSE x
    IN  CASE ret = "HTTP_UPDATE_FAILED" ->
                espRestart(setLedOff(showError(d1, "Update failed!", FALSE)))
          [] ret = "HTTP_UPDATE_NO_UPDATES" ->
                back(showError(d1, "No update available", FALSE))
          [] OTHER ->
                espRestart(showLoading(d1, "Update complete!"))

\* performFirmwareUpdate leaving its message on the screen after a failure
performFirmwareUpdate_noFallback(d, ret) ==
    LET d1 == Logged([showLoading(d, "Updating firmware") EXCEPT !.led = "blue"],
                     "ota", 0, FALSE)
    IN  CASE ret = "HTTP_UPDATE_FAILED" ->
                setLedOff(showError(d1, "Update failed!", FALSE))
          [] ret = "HTTP_UPDATE_NO_UPDATES" ->
                showError(d1, "No update available", FALSE)
          [] OTHER ->
                espRestart(showLoading(d1, "Update complete!"))

\* performFirmwareUpdate, httpUpdate.update() returning ret
performFirmwareUpdate(d, ret) ==
    LET d1 == Logged([showLoading(d, "Updating firmware") EXCEPT !.led = "blue"],
                     "ota", 0, FALSE)
        back(x) == IF x.currentStatus.isValid
                   THEN setLedColor(showRoomStatus(x, x.currentStatus),
                                    x.currentStatus.isAvailable)
                   ELSE x
    IN  CASE ret = "HTTP_UPDATE_FAILED" ->
                back(setLedOff(showError(d1, "Update failed!", FALSE)))
          [] ret = "HTTP_UPDATE_NO_UPDATES" ->
                back(showError(d1, "No update available", FALSE))
          [] OTHER ->
                espRestart(showLoading(d1, "Update complete!"))

\* checkForFirmwareUpdate asking the server and never downloading
checkForFirmwareUpdate_checkOnly(d, fwReply, ret) ==
    LET d1 == Logged(d, "report", Sent(d), FALSE)
        result == checkFirmwareReply(makeRequest(d.apiUrl, d.deviceToken, fwReply))
    IN  Logged(d1, "fwcheck", Sent(d), result[1])

\* checkForFirmwareUpdate
checkForFirmwareUpdate(d, fwReply, ret) ==
    LET d1 == Logged(d, "report", Sent(d), FALSE)
        result == checkFirmwareReply(makeRequest(d.apiUrl, d.deviceToken, fwReply))
        d2 == Logged(d1, "fwcheck", Sent(d), result[1])
    IN  IF result[1] /\ result[2] THEN performFirmwareUpdate(d2, ret) ELSE d2

(***************************************************************************)
(* Touch handling (main.cpp)                                               *)
(***************************************************************************)
\* performQuickBook without the refresh that follows the result screen
performQuickBook_noRefresh(d, t, duration, bookReply, reply, junk) ==
    LET d1 == Logged(showLoading(d, "Booking room..."), "quickBook", duration, FALSE)
        result == makeRequest(d.apiUrl, d.deviceToken, bookReply)
    IN  showBookingResult(d1, result.kind = "ok", result.kind)

\* performQuickBook; the dwell of delay(3000) is part of the time that passes
\* before the next loop iteration
performQuickBook(d, t, duration, bookReply, reply, junk) ==
    LET d1 == Logged(showLoading(d, "Booking room..."), "quickBook", duration, FALSE)
        result == makeRequest(d.apiUrl, d.deviceToken, bookReply)
        d2 == showBookingResult(d1, result.kind = "ok", result.kind)
    IN  updateRoomStatus([d2 EXCEPT !.forceRedraw = TRUE], t, reply, junk)

\* wakeScreen switching the backlight on without refreshing the display
wakeScreen_noRedraw(d, t) ==
    LET d1 == IF ~d.screenOn
              THEN setBacklight([d EXCEPT !.screenOn = TRUE], TRUE)
              ELSE d
    IN  [d1 EXCEPT !.lastActivityTime = t]

\* wakeScreen
wakeScreen(d, t) ==
    LET d1 == IF ~d.screenOn
              THEN LET on == setBacklight([d EXCEPT !.screenOn = TRUE], TRUE)
                   IN  IF on.currentStatus.isValid
                       THEN showRoomStatus(on, on.currentStatus) ELSE on
              ELSE d
    IN  [d1 EXCEPT !.lastActivityTime = t]

\* checkScreenTimeout switching the LED off together with the backlight
checkScreenTimeout_ledOff(d, t) ==
    IF ~d.screenOn THEN d
    ELSE IF t - d.lastActivityTime > SCREEN_TIMEOUT_MS
         THEN setLedOff(setBacklight([d EXCEPT !.screenOn = FALSE], FALSE))
         ELSE d

\* checkScreenTimeout
checkScreenTimeout(d, t) ==
    IF ~d.screenOn THEN d
    ELSE IF t - d.lastActivityTime > SCREEN_TIMEOUT_MS
         THEN setBacklight([d EXCEPT !.screenOn = FALSE], FALSE)
         ELSE d

\* handleTouch refreshing on every press on the room-status screen
dispatchButton_alwaysRefresh(d, t, buttonIndex, bookReply, reply, junk) ==
    CASE d.uiState = "UI_ROOM_STATUS" ->
            IF FALSE
            THEN showQuickBookMenu(d, d.currentStatus)
            ELSE IF buttonIndex = 1 \/ buttonIndex = 0
                 THEN updateRoomStatus([showLoading(d, "Refreshing...")
                                          EXCEPT !.forceRedraw = TRUE], t, reply, junk)
                 ELSE d
      [] d.uiState = "UI_QUICK_BOOK" ->
            IF buttonIndex >= 0 /\ buttonIndex < getQuickBookDurationCount(d)
            THEN LET sel == [d EXCEPT !.selectedDuration =
                                          getQuickBookDuration(d, buttonIndex)]
                 IN  showBookingConfirm(sel, sel.selectedDuration)
            ELSE IF buttonIndex = getQuickBookDurationCount(d)
                 THEN showRoomStatus(d, d.currentStatus)
                 ELSE d
      [] d.uiState = "UI_BOOKING_CONFIRM" ->
            IF buttonIndex = 0 THEN showQuickBookMenu(d, d.currentStatus)
            ELSE IF buttonIndex = 1
                 THEN performQuickBook(d, t, d.selectedDuration, bookReply, reply, junk)
                 ELSE d
      [] d.uiState = "UI_ERROR" ->
            updateRoomStatus([showLoading([d EXCEPT !.connectionLost = FALSE], "Retrying...")
                                EXCEPT !.forceRedraw = TRUE], t, reply, junk)
      [] d.uiState = "UI_TOKEN_SETUP" ->
            IF buttonIndex = 0 THEN showTokenSetup(setDeviceToken(d, ""), "") ELSE d
      [] OTHER ->
            updateRoomStatus([showLoading(d, "Loading...") EXCEPT !.forceRedraw = TRUE],
                             t, reply, junk)

\* handleTouch clearing the connection-lost flag on Retry without fetching
dispatchButton_retryWithoutFetch(d, t, buttonIndex, bookReply, reply, junk) ==
    CASE d.uiState = "UI_ROOM_STATUS" ->
            IF buttonIndex = 0 /\ d.currentStatus.isAvailable
            THEN showQuickBookMenu(d, d.currentStatus)
            ELSE IF buttonIndex = 1 \/ (buttonIndex = 0 /\ ~d.currentStatus.isAvailable)
                 THEN updateRoomStatus([showLoading(d, "Refreshing...")
                                          EXCEPT !.forceRedraw = TRUE], t, reply, junk)
                 ELSE d
      [] d.uiState = "UI_QUICK_BOOK" ->
            IF buttonIndex >= 0 /\ buttonIndex < getQuickBookDurationCount(d)
            THEN LET sel == [d EXCEPT !.selectedDuration =
                                          getQuickBookDuration(d, buttonIndex)]
                 IN  showBookingConfirm(sel, sel.selectedDuration)
            ELSE IF buttonIndex = getQuickBookDurationCount(d)
                 THEN showRoomStatus(d, d.currentStatus)
                 ELSE d
      [] d.uiState = "UI_BOOKING_CONFIRM" ->
            IF buttonIndex = 0 THEN showQuickBookMenu(d, d.currentStatus)
            ELSE IF buttonIndex = 1
                 THEN performQuickBook(d, t, d.selectedDuration, bookReply, reply, junk)
                 ELSE d
      [] d.uiState = "UI_ERROR" ->
            [d EXCEPT !.connectionLost = FALSE, !.forceRedraw = TRUE]
      [] d.uiState = "UI_TOKEN_SETUP" ->
            IF buttonIndex = 0 THEN showTokenSetup(setDeviceToken(d, ""), "") ELSE d
      [] OTHER ->
            updateRoomStatus([showLoading(d, "Loading...") EXCEPT !.forceRedraw = TRUE],
                             t, reply, junk)

\* the switch of handleTouch on the UI state, for a pressed button
dispatchButton(d, t, buttonIndex, bookReply, reply, junk) ==
    CASE d.uiState = "UI_ROOM_STATUS" ->
            IF buttonIndex = 0 /\ d.currentStatus.isAvailable
            THEN showQuickBookMenu(d, d.currentStatus)
            ELSE IF buttonIndex = 1 \/ (buttonIndex = 0 /\ ~d.currentStatus.isAvailable)
                 THEN updateRoomStatus([showLoading(d, "Refreshing...")
                                          EXCEPT !.forceRedraw = TRUE], t, reply, junk)
                 ELSE d
      [] d.uiState = "UI_QUICK_BOOK" ->
            IF buttonIndex >= 0 /\ buttonIndex < getQuickBookDurationCount(d)
            THEN LET sel == [d EXCEPT !.selectedDuration =
                                          getQuickBookDuration(d, buttonIndex)]
                 IN  showBookingConfirm(sel, sel.selectedDuration)
            ELSE IF buttonIndex = getQuickBookDurationCount(d)
                 THEN showRoomStatus(d, d.currentStatus)
                 ELSE d
      [] d.uiState = "UI_BOOKING_CONFIRM" ->
            IF buttonIndex = 0 THEN showQuickBookMenu(d, d.currentStatus)
            ELSE IF buttonIndex = 1
                 THEN performQuickBook(d, t, d.selectedDuration, bookReply, reply, junk)
                 ELSE d
      [] d.uiState = "UI_ERROR" ->
            updateRoomStatus([showLoading([d EXCEPT !.connectionLost = FALSE], "Retrying...")
                                EXCEPT !.forceRedraw = TRUE], t, reply, junk)
      [] d.uiState = "UI_TOKEN_SETUP" ->
            IF buttonIndex = 0 THEN showTokenSetup(setDeviceToken(d, ""), "") ELSE d
      [] OTHER ->
            updateRoomStatus([showLoading(d, "Loading...") EXCEPT !.forceRedraw = TRUE],
                             t, reply, junk)

\* a touch input: none, or the point the touch controller reports
NoTouch == [touched |-> FALSE, x |-> 0, y |-> 0]
TouchAt(x, y) == [touched |-> TRUE, x |-> x, y |-> y]

\* handleTouch dispatching every touch it reads while the screen is on
handleTouch_noDebounce(d, t, touch, bookReply, reply, junk) ==
    IF ~touch.touched THEN d
    ELSE LET d1 == [d EXCEPT !.lastActivityTime = t]
         IN  IF ~d1.screenOn
             THEN [wakeScreen(d1, t) EXCEPT !.lastTouchTime = t]
             ELSE LET d2 == [d1 EXCEPT !.lastTouchTime = t]
                      buttonIndex == checkButtonPress(d2.buttons, touch.x, touch.y)
                  IN  IF buttonIndex < 0 THEN d2
                      ELSE dispatchButton(Logged(d2, "press", buttonIndex, FALSE),
                                          t, buttonIndex, bookReply, reply, junk)

\* handleTouch
handleTouch(d, t, touch, bookReply, reply, junk) ==
    IF ~touch.touched THEN d
    ELSE LET d1 == [d EXCEPT !.lastActivityTime = t]
         IN  IF ~d1.screenOn
             THEN [wakeScreen(d1, t) EXCEPT !.lastTouchTime = t]
             ELSE IF t - d1.lastTouchTime < 300 THEN d1
             ELSE LET d2 == [d1 EXCEPT !.lastTouchTime = t]
                      buttonIndex == checkButtonPress(d2.buttons, touch.x, touch.y)
                  IN  IF buttonIndex < 0 THEN d2
                      ELSE dispatchButton(Logged(d2, "press", buttonIndex, FALSE),
                                          t, buttonIndex, bookReply, reply, junk)

(***************************************************************************)
(* Local web endpoint (main.cpp)                                           *)
(***************************************************************************)
\* a request: route, and the arguments the handlers read; cookie is the
\* session id the Cookie header carries ("" when it carries none)
Request(route, pin, session, cookie, apiUrl, token, timezone, newpin) ==
    [route |-> route, pin |-> pin, session |-> session, cookie |-> cookie,
     apiUrl |-> apiUrl, token |-> token, timezone |-> timezone, newpin |-> newpin]

\* isAuthenticated
isAuthenticated(d, req) ==
    IF d.sessionToken = "" THEN FALSE
    ELSE IF req.session # "" THEN req.session = d.sessionToken
    ELSE req.cookie = d.sessionToken

\* handleLoginPost; fresh is the token generateSessionToken() draws
handleLoginPost(d, req, fresh) ==
    IF req.pin = d.currentSetupPin THEN [d EXCEPT !.sessionToken = fresh] ELSE d

\* handleLogout
handleLogout(d) == [d EXCEPT !.sessionToken = ""]

\* handleReset
handleReset(d, req) ==
    IF ~isAuthenticated(d, req) THEN d
    ELSE espRestart(setDeviceToken(setApiUrl([d EXCEPT !.prefs = ClearedPrefs], <<>>), ""))

\* handleSaveConfig storing the new PIN before it checks its length
handleSaveConfig_pinBeforeCheck(d, t, req, reply, junk) ==
    IF ~isAuthenticated(d, req) THEN d
    ELSE IF Len(req.apiUrl) = 0 THEN d
    ELSE LET token == IF req.token = "" /\ d.deviceToken # ""
                      THEN d.deviceToken ELSE req.token
             timezone == IF req.timezone = "" THEN "UTC0" ELSE req.timezone
         IN  IF token = "" THEN d
             ELSE IF Len(req.newpin) > 0 /\ Len(req.newpin) < 4
                  THEN [d EXCEPT !.currentSetupPin = req.newpin,
                                 !.prefs.setup_pin = req.newpin]
             ELSE LET d1 == IF Len(req.newpin) > 0
                            THEN [d EXCEPT !.currentSetupPin = req.newpin,
                                           !.prefs.setup_pin = req.newpin]
                            ELSE d
                      d2 == setDeviceToken(setApiUrl(d1, req.apiUrl), token)
                      d3 == saveConfig([d2 EXCEPT !.prefs.timezone = timezone])
                      d4 == [d3 EXCEPT !.setupMode = FALSE, !.deviceConfigured = TRUE]
                      d5 == [showLoading(d4, "Connecting to server...")
                               EXCEPT !.forceRedraw = TRUE]
                  IN  updateRoomStatus(d5, t, reply, junk)

\* handleSaveConfig
handleSaveConfig(d, t, req, reply, junk) ==
    IF ~isAuthenticated(d, req) THEN d
    ELSE IF Len(req.apiUrl) = 0 THEN d
    ELSE LET token == IF req.token = "" /\ d.deviceToken # ""
                      THEN d.deviceToken ELSE req.token
             timezone == IF req.timezone = "" THEN "UTC0" ELSE req.timezone
         IN  IF token = "" THEN d
             ELSE IF Len(req.newpin) > 0 /\ Len(req.newpin) < 4 THEN d
             ELSE LET d1 == IF Len(req.newpin) > 0
                            THEN [d EXCEPT !.currentSetupPin = req.newpin,
                                           !.prefs.setup_pin = req.newpin]
                            ELSE d
                      d2 == setDeviceToken(setApiUrl(d1, req.apiUrl), token)
                      d3 == saveConfig([d2 EXCEPT !.prefs.timezone = timezone])
                      d4 == [d3 EXCEPT !.setupMode = FALSE, !.deviceConfigured = TRUE]
                      d5 == [showLoading(d4, "Connecting to server...")
                               EXCEPT !.forceRedraw = TRUE]
                  IN  updateRoomStatus(d5, t, reply, junk)

\* server.handleClient(): the handler of the pending request, if any
handleClient(d, t, req, fresh, reply, junk) ==
    CASE req.route = "POST /login" -> handleLoginPost(d, req, fresh)
      [] req.route = "POST /logout" -> handleLogout(d)
      [] req.route = "POST /save" -> handleSaveConfig(d, t, req, reply, junk)
      [] req.route = "POST /reset" -> handleReset(d, req)
      [] OTHER -> d

(***************************************************************************)
(* setup() and the parts of loop()                                         *)
(***************************************************************************)
\* setup(); connected is what wifiManager.autoConnect() returns
setup(d, t, connected, fwReply, ret, reply, junk) ==
    LET d1 == loadConfig(checkBootLoop([setLedOff(d) EXCEPT !.lastActivityTime = t]))
        d2 == showLoading(d1, "Connecting to WiFi...")
    IN  IF ~connected THEN showWiFiSetup(d2)
        ELSE LET d3 == setupWebServer([d2 EXCEPT !.wifiConnected = TRUE])
             IN  IF d3.safeMode THEN showError(d3, "Safe mode (boot loop detected)", FALSE)
                 ELSE IF isConfigured(d3)
                 THEN LET d4 == showLoading([d3 EXCEPT !.deviceConfigured = TRUE],
                                            "Loading room status...")
                          d5 == Logged(d4, "report", Sent(d4), FALSE)
                          d6 == checkForFirmwareUpdate(
                                    [d5 EXCEPT !.lastFirmwareCheck = t], fwReply, ret)
                      IN  IF d6.restarted THEN d6
                          ELSE clearBootCount(updateRoomStatus(d6, t, reply, junk))
                 ELSE showTokenSetup(d3, LocalIP)

\* loop(), first statement: the web endpoint is serviced when it is running
loopWeb(d, t, req, fresh, reply, junk) ==
    IF d.webServerRunning
    THEN handleClient(Logged(d, "handleClient", 0, FALSE), t, req, fresh, reply, junk)
    ELSE d

\* loop(), the WiFi check, leaving the web endpoint stopped after a reconnect
loopWifi_noServerRestart(d, t, up, reply, junk) ==
    IF ~up
    THEN IF d.wifiConnected
         THEN showError(setLedOff([d EXCEPT !.wifiConnected = FALSE, !.wifiLostTime = t,
                                            !.wifiRetryCount = 0,
                                            !.webServerRunning = FALSE]),
                        "WiFi disconnected", FALSE)
         ELSE IF t - d.wifiLostTime > 60000 THEN espRestart(d)
         ELSE IF d.wifiRetryCount < 5 /\ t - d.wifiLostTime > (d.wifiRetryCount + 1) * 10000
              THEN [d EXCEPT !.wifiRetryCount = @ + 1]
              ELSE d
    ELSE LET d1 == IF ~d.wifiConnected
                   THEN LET r == [d EXCEPT !.wifiConnected = TRUE, !.wifiRetryCount = 0,
                                           !.forceRedraw = TRUE]
                        IN  IF r.deviceConfigured
                            THEN updateRoomStatus(showLoading(r, "Reconnected! Loading..."),
                                                  t, reply, junk)
                            ELSE r
                   ELSE d
         IN  IF d1.safeMode THEN d1
             ELSE IF d1.setupMode THEN setLedOff(d1)
             ELSE IF ~d1.deviceConfigured THEN setLedOff(d1)
             ELSE d1

\* loop(), the WiFi check, restarting at the first reconnection interval
loopWifi_earlyRestart(d, t, up, reply, junk) ==
    IF ~up
    THEN IF d.wifiConnected
         THEN showError(setLedOff([d EXCEPT !.wifiConnected = FALSE, !.wifiLostTime = t,
                                            !.wifiRetryCount = 0,
                                            !.webServerRunning = FALSE]),
                        "WiFi disconnected", FALSE)
         ELSE IF t - d.wifiLostTime > 10000 THEN espRestart(d)
         ELSE d
    ELSE LET d1 == IF ~d.wifiConnected
                   THEN LET r == [setupWebServer([d EXCEPT !.wifiConnected = TRUE,
                                                           !.wifiRetryCount = 0])
                                    EXCEPT !.forceRedraw = TRUE]
                        IN  IF r.deviceConfigured
                            THEN updateRoomStatus(showLoading(r, "Reconnected! Loading..."),
                                                  t, reply, junk)
                            ELSE r
                   ELSE d
         IN  IF d1.safeMode THEN d1
             ELSE IF d1.setupMode THEN setLedOff(d1)
             ELSE IF ~d1.deviceConfigured THEN setLedOff(d1)
             ELSE d1

\* loop(), the WiFi check, reconnecting in every iteration while WiFi is down
loopWifi_retryAtOnce(d, t, up, reply, junk) ==
    IF ~up
    THEN IF d.wifiConnected
         THEN showError(setLedOff([d EXCEPT !.wifiConnected = FALSE, !.wifiLostTime = t,
                                            !.wifiRetryCount = 0,
                                            !.webServerRunning = FALSE]),
                        "WiFi disconnected", FALSE)
         ELSE IF t - d.wifiLostTime > 60000 THEN espRestart(d)
         ELSE IF d.wifiRetryCount < 5
              THEN [d EXCEPT !.wifiRetryCount = @ + 1]
              ELSE d
    ELSE LET d1 == IF ~d.wifiConnected
                   THEN LET r == [setupWebServer([d EXCEPT !.wifiConnected = TRUE,
                                                           !.wifiRetryCount = 0])
                                    EXCEPT !.forceRedraw = TRUE]
                        IN  IF r.deviceConfigured
                            THEN updateRoomStatus(showLoading(r, "Reconnected! Loading..."),
                                                  t, reply, junk)
                            ELSE r
                   ELSE d
         IN  IF d1.safeMode THEN d1
             ELSE IF d1.setupMode THEN setLedOff(d1)
             ELSE IF ~d1.deviceConfigured THEN setLedOff(d1)
             ELSE d1

\* loop() testing safeMode before WiFi.status()
loopWifi_safeModeFirst(d, t, up, reply, junk) ==
    IF d.safeMode /\ ~up THEN d ELSE
    IF ~up
    THEN IF d.wifiConnected
         THEN showError(setLedOff([d EXCEPT !.wifiConnected = FALSE, !.wifiLostTime = t,
                                            !.wifiRetryCount = 0,
                                            !.webServerRunning = FALSE]),
                        "WiFi disconnected", FALSE)
         ELSE IF t - d.wifiLostTime > 60000 THEN espRestart(d)
         ELSE IF d.wifiRetryCount < 5 /\ t - d.wifiLostTime > (d.wifiRetryCount + 1) * 10000
              THEN [d EXCEPT !.wifiRetryCount = @ + 1]
              ELSE d
    ELSE LET d1 == IF ~d.wifiConnected
                   THEN LET r == [setupWebServer([d EXCEPT !.wifiConnected = TRUE,
                                                           !.wifiRetryCount = 0])
                                    EXCEPT !.forceRedraw = TRUE]
                        IN  IF r.deviceConfigured
                            THEN updateRoomStatus(showLoading(r, "Reconnected! Loading..."),
                                                  t, reply, junk)
                            ELSE r
                   ELSE d
         IN  IF d1.safeMode THEN d1
             ELSE IF d1.setupMode THEN setLedOff(d1)
             ELSE IF ~d1.deviceConfigured THEN setLedOff(d1)
             ELSE d1

\* loop(), the WiFi check, up to the return or to handleTouch()
loopWifi(d, t, up, reply, junk) ==
    IF ~up
    THEN IF d.wifiConnected
         THEN showError(setLedOff([d EXCEPT !.wifiConnected = FALSE, !.wifiLostTime = t,
                                            !.wifiRetryCount = 0,
                                            !.webServerRunning = FALSE]),
                        "WiFi disconnected", FALSE)
         ELSE IF t - d.wifiLostTime > 60000 THEN espRestart(d)
         ELSE IF d.wifiRetryCount < 5 /\ t - d.wifiLostTime > (d.wifiRetryCount + 1) * 10000
              THEN [d EXCEPT !.wifiRetryCount = @ + 1]
              ELSE d
    ELSE LET d1 == IF ~d.wifiConnected
                   THEN LET r == [setupWebServer([d EXCEPT !.wifiConnected = TRUE,
                                                           !.wifiRetryCount = 0])
                                    EXCEPT !.forceRedraw = TRUE]
                        IN  IF r.deviceConfigured
                            THEN updateRoomStatus(showLoading(r, "Reconnected! Loading..."),
                                                  t, reply, junk)
                            ELSE r
                   ELSE d
         IN  IF d1.safeMode THEN d1
             ELSE IF d1.setupMode THEN setLedOff(d1)
             ELSE IF ~d1.deviceConfigured THEN setLedOff(d1)
             ELSE d1

\* loop() going on to handleTouch() whatever WiFi.status() says
loopGoesOn_ignoresWifi(d1, up) ==
    ~d1.restarted /\ ~d1.safeMode /\ ~d1.setupMode /\ d1.deviceConfigured

\* loop() going on to handleTouch() on a device that is not provisioned
loopGoesOn_ignoresProvisioning(d1, up) ==
    up /\ ~d1.restarted /\ ~d1.safeMode

\* whether loop() goes on to handleTouch() after the WiFi check
loopGoesOn(d1, up) ==
    up /\ ~d1.restarted /\ ~d1.safeMode /\ ~d1.setupMode /\ d1.deviceConfigured

\* loop(): handleTouch() and checkScreenTimeout()
loopTouch(d, t, touch, bookReply, reply, junk) ==
    checkScreenTimeout(handleTouch(d, t, touch, bookReply, reply, junk), t)

\* the connection-lost branch retrying in every iteration
loopBackoff_noWait(d, t, reply, junk) ==
    [updateRoomStatus([d EXCEPT !.forceRedraw = TRUE], t, reply, junk)
       EXCEPT !.lastConnectionRetry = t]

\* the connection-lost branch retrying without forcing the redraw
loopBackoff_noForcedRedraw(d, t, reply, junk) ==
    IF t - d.lastConnectionRetry > CONNECTION_RETRY_INTERVAL
    THEN [updateRoomStatus(d, t, reply, junk) EXCEPT !.lastConnectionRetry = t]
    ELSE d

\* loop(): the retry of the connection-lost branch
loopBackoff(d, t, reply, junk) ==
    IF t - d.lastConnectionRetry > CONNECTION_RETRY_INTERVAL
    THEN [updateRoomStatus([d EXCEPT !.forceRedraw = TRUE], t, reply, junk)
            EXCEPT !.lastConnectionRetry = t]
    ELSE d

\* loop() forcing the redraw of its periodic status update
loopPoll_forcedRedraw(d, t, reply, junk) ==
    IF t - d.lastStatusUpdate > STATUS_POLL_INTERVAL
    THEN updateRoomStatus([d EXCEPT !.forceRedraw = TRUE], t, reply, junk) ELSE d

\* loop(): the periodic status update
loopPoll(d, t, reply, junk) ==
    IF t - d.lastStatusUpdate > STATUS_POLL_INTERVAL
    THEN updateRoomStatus(d, t, reply, junk) ELSE d

\* loop() pinging in every iteration
loopPing_everyIteration(d, t) ==
    [Logged(d, "ping", Sent(d), FALSE) EXCEPT !.lastPing = t]

\* loop(): the periodic ping
loopPing(d, t) ==
    IF t - d.lastPing > PING_INTERVAL
    THEN [Logged(d, "ping", Sent(d), FALSE) EXCEPT !.lastPing = t] ELSE d

\* loop(): the periodic firmware update check
loopFirmware(d, t, fwReply, ret) ==
    IF t - d.lastFirmwareCheck > FIRMWARE_CHECK_INTERVAL
    THEN LET d1 == checkForFirmwareUpdate(d, fwReply, ret)
         IN  IF d1.restarted THEN d1 ELSE [d1 EXCEPT !.lastFirmwareCheck = t]
    ELSE d

(***************************************************************************)
(* Inputs                                                                  *)
(***************************************************************************)
RoomObj(id, name, hasDurations, durations) ==
    [isNull |-> FALSE, id |-> id, name |-> name, hasDurations |-> hasDurations,
     quickBookDurations |-> durations]

BookingObj(id, title) == [isNull |-> FALSE, id |-> id, title |-> title]

\* a reply to GET /status: no usable reply, an unparsable body, an error
\* object, or a status document
FailReply(kind, error) ==
    [kind |-> kind, error |-> error, room |-> jNull, isAvailable |-> FALSE,
     currentBooking |-> jNull, upcomingBookings |-> <<>>]

OkReply(room, isAvailable, currentBooking, upcomingBookings) ==
    [kind |-> "ok", error |-> "", room |-> room, isAvailable |-> isAvailable,
     currentBooking |-> currentBooking, upcomingBookings |-> upcomingBookings]

\* the failures of a status fetch: no reply, or an error object
FailReplies == {FailReply("none", ""), FailReply("error", "Room not found")}

\* the status documents the server sends in the device runs
OkReplies ==
    { OkReply(RoomObj("r1", "A", FALSE, <<>>), TRUE, jNull, <<>>),
      OkReply(RoomObj("r1", "A", TRUE, <<jInt(10), jOther>>), TRUE, jNull, <<>>),
      OkReply(RoomObj("r1", "A", FALSE, <<>>), FALSE, BookingObj("b0", "t1"),
              <<BookingObj("b1", "t1")>>),
      OkReply(RoomObj("r1", "A", FALSE, <<>>), FALSE, BookingObj("b0", "t1"),
              <<BookingObj("b1", "t2")>>),
      OkReply(RoomObj("r1", "A", FALSE, <<>>), FALSE, BookingObj("b0", "t1"), <<>>),
      OkReply(RoomObj("", "A", FALSE, <<>>), TRUE, jNull, <<>>) }

\* the inputs of a status fetch: <<the server's reply, the value the stack
\* holds where the uninitialised isAvailable of a failed fetch lies>>
StatusInputs ==
    {<<r, FALSE>> : r \in FailReplies \cup OkReplies}
        \cup {<<FailReply("none", ""), TRUE>>}

\* the inputs of a status fetch that is attempted without WiFi
NoReplyInputs == {in \in StatusInputs : in[1].kind = "none"}

\* replies to POST /quick-book (only success or failure is used)
BookReplies == {FailReply("ok", ""), FailReply("none", "")}

\* replies to GET /firmware/check
FirmwareReply(kind, updateAvailable, hasLatestFirmware) ==
    [kind |-> kind, updateAvailable |-> updateAvailable,
     hasLatestFirmware |-> hasLatestFirmware]

FirmwareReplies ==
    { FirmwareReply("none", FALSE, FALSE), FirmwareReply("garbage", FALSE, FALSE),
      FirmwareReply("ok", FALSE, FALSE), FirmwareReply("ok", TRUE, FALSE),
      FirmwareReply("ok", TRUE, TRUE) }

\* t_httpUpdate_return
OtaResults == {"HTTP_UPDATE_FAILED", "HTTP_UPDATE_NO_UPDATES", "HTTP_UPDATE_OK"}

\* touch points: inside each button of each screen, and outside all of them
TouchInputs ==
    { NoTouch, TouchAt(0, 0),
      TouchAt(84, 100), TouchAt(239, 100), TouchAt(84, 160), TouchAt(239, 160),
      TouchAt(84, 207), TouchAt(160, 210), TouchAt(295, 220) }

\* the session token generateSessionToken() draws
SessionTokens == {"s1"}

NoRequest == Request("none", <<>>, "", "", <<>>, "", "", <<>>)

LoginRequests ==
    {Request("POST /login", pin, "", "", <<>>, "", "", <<>>) :
        pin \in {SETUP_PIN, <<0>>}}

\* how a request presents its session: URL parameter, cookie, or neither
Credentials == {<<"s1", "">>, <<"", "s1">>, <<"bad", "s1">>, <<"", "">>}

SaveForms ==
    { <<<<"h">>, "tok", "", <<>>>>,
      <<<<>>, "tok", "", <<>>>>,
      <<<<"/">>, "tok", "", <<>>>>,
      <<<<"h", "/">>, "", "", <<>>>>,
      <<<<"h", "/", "/">>, "tok", "", <<>>>>,
      <<<<"h">>, "tok", "", <<9>>>> }

SaveRequests ==
    {Request("POST /save", <<>>, c[1], c[2], f[1], f[2], f[3], f[4]) :
        c \in Credentials, f \in SaveForms}

OtherRequests ==
    {Request(route, <<>>, c[1], c[2], <<>>, "", "", <<>>) :
        route \in {"POST /logout", "POST /reset"}, c \in Credentials}

WebRequests == {NoRequest} \cup LoginRequests \cup SaveRequests \cup OtherRequests

\* S, or one element of it when the choice is not read
Choice(S, read) == IF read THEN S ELSE {CHOOSE x \in S : TRUE}

(***************************************************************************)
(* The device: initial state and actions                                   *)
(***************************************************************************)
\* the surroundings of a run: an administrator at the configuration page, a
\* user at the touch screen, an unreliable access point, or nobody for a long
\* time
EnvKinds == {"admin", "user", "network", "idle"}

\* the Preferences store at power-on: as the factory leaves it, or as an
\* accepted POST /save and a valid status fetch leave it
StoredPrefs ==
    {ClearedPrefs, [ClearedPrefs EXCEPT !.api_url = <<"h">>, !.device_token = "tok"]}

Init ==
    /\ pc = "setup"
    /\ now = 0
    /\ wifiUp \in BOOLEAN
    /\ env \in EnvKinds
    /\ \E prefs \in StoredPrefs : dev = Ram(prefs)
    /\ boots = 0
    /\ picked = 0
    /\ callIn = <<>>
    /\ callOut = <<>>

\* the log of a step starts empty
Start(d) == [d EXCEPT !.log = <<>>]

\* whether the step fetched a valid status
FetchedValid(d) ==
    /\ \E i \in 1..Len(d.log) : d.log[i].op = "status"
    /\ d.currentStatus.isValid

\* the state a step leaves: dn, or RAM as a restart leaves it
Finish(dn, next) ==
    /\ dev' = IF dn.restarted THEN [Ram(dn.prefs) EXCEPT !.log = dn.log] ELSE dn
    /\ pc' = IF dn.restarted THEN "setup" ELSE next
    /\ now' = IF dn.restarted THEN 0 ELSE now
    /\ UNCHANGED <<wifiUp, env, callIn, callOut>>

\* setup() runs once after every reset
Boot ==
    /\ pc = "setup"
    /\ \E fwReply \in Choice(FirmwareReplies, wifiUp),
          ret \in Choice(OtaResults, wifiUp),
          in \in Choice(StatusInputs, wifiUp) :
          LET dn == setup(Start(dev), now, wifiUp, fwReply, ret, in[1], in[2])
          IN  /\ Finish(dn, "web")
              /\ boots' = IF FetchedValid(dn) \/ dn.safeMode THEN 0
                          ELSE Min(boots + 1, BOOT_LOOP_THRESHOLD + 1)
    /\ UNCHANGED picked

\* time passes between loop iterations
Tick ==
    /\ pc = "web"
    /\ env \in {"user", "network", "idle"}
    /\ LET step == IF env = "idle" THEN LongStep ELSE TimeStep
       IN  /\ now + step <= MaxTicks * step
           /\ now' = now + step
    /\ dev' = Start(dev)
    /\ UNCHANGED <<pc, wifiUp, env, boots, picked, callIn, callOut>>

\* the access point goes away or comes back
WifiChange ==
    /\ pc = "web"
    /\ env \in {"network", "admin"}
    /\ wifiUp' = ~wifiUp
    /\ dev' = Start(dev)
    /\ UNCHANGED <<pc, now, env, boots, picked, callIn, callOut>>

\* power is cut, or the firmware crashes: RAM is lost, Preferences are kept
PowerCycle ==
    /\ pc = "web"
    /\ env \in {"admin", "network"}
    /\ dev' = Ram(dev.prefs)
    /\ pc' = "setup"
    /\ now' = 0
    /\ UNCHANGED <<wifiUp, env, boots, picked, callIn, callOut>>

LoopWeb ==
    /\ pc = "web"
    /\ \E req \in (IF env = "admin" THEN WebRequests ELSE {NoRequest}),
          fresh \in SessionTokens :
         \E in \in Choice(IF wifiUp THEN StatusInputs ELSE NoReplyInputs,
                          req.route = "POST /save") :
          LET dn == loopWeb(Start(dev), now, req, fresh, in[1], in[2])
          IN  /\ Finish(dn, "wifi")
              /\ boots' = IF FetchedValid(dn) \/ dn.restarted THEN 0 ELSE boots
    /\ UNCHANGED picked

LoopWifi ==
    /\ pc = "wifi"
    /\ \E in \in Choice(StatusInputs, wifiUp /\ ~dev.wifiConnected) :
          LET dn == loopWifi(Start(dev), now, wifiUp, in[1], in[2])
          IN  /\ Finish(dn, IF loopGoesOn(dn, wifiUp) THEN "touch" ELSE "web")
              /\ boots' = IF FetchedValid(dn) THEN 0 ELSE boots
    /\ UNCHANGED picked

LoopTouch ==
    /\ pc = "touch"
    /\ \E touch \in (IF env = "user" THEN TouchInputs ELSE {NoTouch}) :
         \E bookReply \in Choice(BookReplies, dev.uiState = "UI_BOOKING_CONFIRM"),
            in \in Choice(StatusInputs, touch.touched) :
          LET dn == loopTouch(Start(dev), now, touch, bookReply, in[1], in[2])
          IN  /\ Finish(dn, "timers")
              /\ boots' = IF FetchedValid(dn) THEN 0 ELSE boots
              /\ picked' = IF dev.uiState = "UI_QUICK_BOOK"
                               /\ dn.uiState = "UI_BOOKING_CONFIRM"
                            THEN getQuickBookDuration(
                                     dev, checkButtonPress(dev.buttons, touch.x, touch.y))
                            ELSE picked

LoopBackoff ==
    /\ pc = "timers"
    /\ dev.connectionLost
    /\ \E in \in Choice(StatusInputs, now - dev.lastConnectionRetry > CONNECTION_RETRY_INTERVAL) :
          LET dn == loopBackoff(Start(dev), now, in[1], in[2])
          IN  /\ Finish(dn, "web")
              /\ boots' = IF FetchedValid(dn) THEN 0 ELSE boots
    /\ UNCHANGED picked

LoopPoll ==
    /\ pc = "timers"
    /\ ~dev.connectionLost
    /\ \E in \in Choice(StatusInputs, now - dev.lastStatusUpdate > STATUS_POLL_INTERVAL) :
          LET dn == loopPoll(Start(dev), now, in[1], in[2])
          IN  /\ Finish(dn, "ping")
              /\ boots' = IF FetchedValid(dn) THEN 0 ELSE boots
    /\ UNCHANGED picked

LoopPing ==
    /\ pc = "ping"
    /\ Finish(loopPing(Start(dev), now), "fw")
    /\ UNCHANGED <<boots, picked>>

LoopFirmware ==
    /\ pc = "fw"
    /\ \E fwReply \in Choice(FirmwareReplies, now - dev.lastFirmwareCheck > FIRMWARE_CHECK_INTERVAL),
          ret \in Choice(OtaResults, now - dev.lastFirmwareCheck > FIRMWARE_CHECK_INTERVAL) :
          Finish(loopFirmware(Start(dev), now, fwReply, ret), "web")
    /\ UNCHANGED <<boots, picked>>

Next ==
    \/ Boot
    \/ Tick
    \/ WifiChange
    \/ PowerCycle
    \/ LoopWeb
    \/ LoopWifi
    \/ LoopTouch
    \/ LoopBackoff
    \/ LoopPoll
    \/ LoopPing
    \/ LoopFirmware

Spec == Init /\ [][Next]_vars

(***************************************************************************)
(* roomStatusesAreEqual called on its own                                  *)
(***************************************************************************)
\* what the three upcoming slots hold
EqIds == {<<"b1", "b2", "b3">>, <<"b1", "b2", "">>, <<"b2", "b1", "b3">>}

\* a RoomStatus; other varies the fields the comparison does not read
EqStatus(valid, available, name, count, ids, other) ==
    [isValid |-> valid, isAvailable |-> available, upcomingCount |-> count,
     room |-> [id |-> "r1", name |-> name, isValid |-> TRUE,
               quickBookDurations |-> IF other THEN <<10, 30, 90, 120>>
                                      ELSE defaultDurations,
               quickBookDurationCount |-> IF other THEN 2 ELSE 4],
     currentBooking |-> IF other THEN mkBooking("b0", "t1") ELSE NoBooking,
     upcomingBookings |->
         [i \in 1..MaxUpcoming |-> mkBooking(ids[i], IF other THEN "t2" ELSE "t1")],
     errorMessage |-> IF other THEN "Room not found" ELSE ""]

EqStatuses ==
    {EqStatus(valid, available, name, count, ids, other) :
        valid \in BOOLEAN, available \in BOOLEAN, name \in {"A", "B"},
        count \in 0..MaxUpcoming, ids \in EqIds, other \in BOOLEAN}

InitEq ==
    /\ pc = "equal"
    /\ now = 0
    /\ wifiUp = FALSE
    /\ env = "idle"
    /\ dev = Ram(ClearedPrefs)
    /\ boots = 0
    /\ picked = 0
    /\ callIn \in EqStatuses \X EqStatuses
    /\ callOut = <<>>

\* roomStatusesAreEqual(A, B), (B, A) and (A, A)
CallEqual ==
    /\ pc = "equal"
    /\ callOut = <<>>
    /\ callOut' = << roomStatusesAreEqual(callIn[1], callIn[2]),
                     roomStatusesAreEqual(callIn[2], callIn[1]),
                     roomStatusesAreEqual(callIn[1], callIn[1]) >>
    /\ UNCHANGED <<pc, now, wifiUp, env, dev, boots, picked, callIn>>

NextEq == CallEqual

SpecEq == InitEq /\ [][NextEq]_vars

(***************************************************************************)
(* updateRoomStatus called on its own                                      *)
(***************************************************************************)
\* a valid status a previous fetch retained
RetainedStatus == EqStatus(TRUE, TRUE, "A", 0, <<"", "", "">>, FALSE)

\* the globals updateRoomStatus reads and writes, in every combination
FetchStates ==
    {[Ram(ClearedPrefs) EXCEPT !.wifiConnected = TRUE, !.webServerRunning = TRUE,
                               !.apiUrl = url, !.deviceToken = token,
                               !.deviceConfigured = configured, !.setupMode = setupMode,
                               !.connectionLost = lost, !.forceRedraw = force,
                               !.lastStatus = last] :
        url \in {<<>>, <<"h">>}, token \in {"", "tok"}, configured \in BOOLEAN,
        setupMode \in BOOLEAN, lost \in BOOLEAN, force \in BOOLEAN,
        last \in {blankStatus(FALSE), RetainedStatus}}

InitFetch ==
    /\ pc = "fetch"
    /\ now = TimeStep
    /\ wifiUp = TRUE
    /\ env = "idle"
    /\ dev \in FetchStates
    /\ boots = 0
    /\ picked = 0
    /\ callIn = <<>>
    /\ callOut = <<>>

\* the inputs of a status fetch, a body that is not JSON among them
FetchInputs ==
    StatusInputs \cup {<<FailReply("garbage", ""), junk>> : junk \in BOOLEAN}

\* updateRoomStatus(); callIn keeps the state it was called in and the input
CallFetch ==
    /\ pc = "fetch"
    /\ \E in \in FetchInputs :
          /\ dev' = updateRoomStatus(dev, now, in[1], in[2])
          /\ callIn' = <<dev, in>>
    /\ pc' = "fetched"
    /\ UNCHANGED <<now, wifiUp, env, boots, picked, callOut>>

NextFetch == CallFetch

SpecFetch == InitFetch /\ [][NextFetch]_vars

\* whether the log of the running step holds an event of this kind
HasEvent(log, op) == \E i \in 1..Len(log) : log[i].op = op

(***************************************************************************)
(* handleTouch() and checkScreenTimeout() with the touch controller read   *)
(* at millisecond distances                                                *)
(***************************************************************************)
\* the distances between two reads of the touch controller: inside the
\* debounce window, at its end, and longer than the screen timeout
ShortGap == 299
DebounceGap == 300
SleepGap == 120001

\* the longest burst of reads at short distances
MaxBurst == 600

\* a provisioned device as setup() leaves it when no firmware update is offered
TapStates ==
    {setup(Ram([ClearedPrefs EXCEPT !.api_url = <<"h">>, !.device_token = "tok"]),
           0, TRUE, FirmwareReply("ok", FALSE, FALSE), "HTTP_UPDATE_NO_UPDATES",
           in[1], in[2]) : in \in StatusInputs}

InitTap ==
    /\ pc = "tap"
    /\ now = 0
    /\ wifiUp = TRUE
    /\ env = "user"
    /\ \E d \in TapStates : dev = Start(d)
    /\ boots = 0
    /\ picked = 0
    /\ callIn = <<NoTouch>>
    /\ callOut = <<>>

\* time passes between two loop iterations
TapWait ==
    /\ pc = "tap"
    /\ \E gap \in {ShortGap, DebounceGap, SleepGap} :
          /\ IF gap = SleepGap THEN now < SleepGap
             ELSE (now % SleepGap) + gap <= MaxBurst
          /\ now' = now + gap
    /\ dev' = Start(dev)
    /\ UNCHANGED <<pc, wifiUp, env, boots, picked, callIn, callOut>>

\* handleTouch() and checkScreenTimeout() of one loop iteration; callIn keeps
\* the touch that was read, callOut the times of the last two dispatched presses
TapTouch ==
    /\ pc = "tap"
    /\ \E touch \in TouchInputs :
         \E bookReply \in Choice(BookReplies, dev.uiState = "UI_BOOKING_CONFIRM"),
            in \in Choice(StatusInputs, touch.touched) :
          LET dn == loopTouch(Start(dev), now, touch, bookReply, in[1], in[2])
          IN  /\ dev' = dn
              /\ callIn' = <<touch>>
              /\ callOut' = IF HasEvent(dn.log, "press")
                            THEN (IF callOut = <<>> THEN <<now>>
                                  ELSE <<callOut[Len(callOut)], now>>)
                            ELSE callOut
    /\ UNCHANGED <<pc, now, wifiUp, env, boots, picked>>

NextTap == TapWait \/ TapTouch

SpecTap == InitTap /\ [][NextTap]_vars

(***************************************************************************)
(* The unattended device: WiFi stays connected, nobody touches the screen  *)
(* or calls the web endpoint, and the server may recover for good          *)
(***************************************************************************)
\* the latest millis() of an unattended run
LiveHorizon == LongStep + MaxTicks * TimeStep

\* the status inputs of a server that answers every fetch with a valid status
ValidInputs ==
    {in \in StatusInputs : getRoomStatus(in[1], in[2]).isValid}

\* what the server answers: anything while it is down, valid once recovered
LiveInputs == IF env = "recovered" THEN ValidInputs ELSE StatusInputs

InitLive ==
    /\ pc = "setup"
    /\ now = 0
    /\ wifiUp = TRUE
    /\ env = "down"
    /\ \E prefs \in StoredPrefs : dev = Ram(prefs)
    /\ boots = 0
    /\ picked = 0
    /\ callIn = <<>>
    /\ callOut = <<>>

\* setup()
LiveBoot ==
    /\ pc = "setup"
    /\ \E fwReply \in FirmwareReplies, ret \in OtaResults, in \in LiveInputs :
         \E dn \in {setup(Start(dev), now, TRUE, fwReply, ret, in[1], in[2])} :
          Finish(dn, "web")
    /\ UNCHANGED <<boots, picked>>

\* the delay() that ends a loop iteration, when it is short against the timers
LiveDelay ==
    /\ pc = "delay"
    /\ pc' = "web"
    /\ dev' = Start(dev)
    /\ UNCHANGED <<now, wifiUp, env, boots, picked, callIn, callOut>>

\* the delay() that ends a loop iteration, and the iterations in which no
\* timer is due: time has passed when loop() is looked at again
LiveTick ==
    /\ pc = "delay"
    /\ \E step \in {TimeStep, LongStep} :
          /\ now + step <= LiveHorizon
          /\ now' = now + step
    /\ pc' = "web"
    /\ dev' = Start(dev)
    /\ UNCHANGED <<wifiUp, env, boots, picked, callIn, callOut>>

\* the server recovers, early enough for two more loop iterations to be timed
Recover ==
    /\ env = "down"
    /\ now + LongStep + TimeStep <= LiveHorizon
    /\ env' = "recovered"
    /\ UNCHANGED <<pc, now, wifiUp, dev, boots, picked, callIn, callOut>>

\* loop() up to the connection-lost branch: no request, WiFi up, no touch
LiveHead ==
    /\ pc = "web"
    /\ \E in \in Choice(LiveInputs, FALSE), bookReply \in Choice(BookReplies, FALSE) :
         \E d1 \in {loopWeb(Start(dev), now, NoRequest, "s1", in[1], in[2])} :
         \E d2 \in {loopWifi(d1, now, TRUE, in[1], in[2])} :
         \E d3 \in {loopTouch(d2, now, NoTouch, bookReply, in[1], in[2])} :
          IF loopGoesOn(d2, TRUE) THEN Finish(d3, "timers") ELSE Finish(d2, "delay")
    /\ UNCHANGED <<boots, picked>>

LiveBackoff ==
    /\ pc = "timers"
    /\ dev.connectionLost
    /\ \E in \in LiveInputs :
         \E dn \in {loopBackoff(Start(dev), now, in[1], in[2])} : Finish(dn, "delay")
    /\ UNCHANGED <<boots, picked>>

LivePoll ==
    /\ pc = "timers"
    /\ ~dev.connectionLost
    /\ \E in \in LiveInputs :
         \E dn \in {loopPoll(Start(dev), now, in[1], in[2])} : Finish(dn, "ping")
    /\ UNCHANGED <<boots, picked>>

LivePing ==
    /\ pc = "ping"
    /\ \E dn \in {loopPing(Start(dev), now)} : Finish(dn, "fw")
    /\ UNCHANGED <<boots, picked>>

LiveFirmware ==
    /\ pc = "fw"
    /\ \E fwReply \in FirmwareReplies, ret \in OtaResults :
         \E dn \in {loopFirmware(Start(dev), now, fwReply, ret)} : Finish(dn, "delay")
    /\ UNCHANGED <<boots, picked>>

\* the positions of the firmware in setup() and loop()
Positions == {"setup", "web", "wifi", "touch", "timers", "ping", "fw", "delay"}

\* the firmware keeps running: setup() and every part of loop() end, and a
\* loop() that passes its early returns goes on to the timers
LiveRun ==
    \/ pc # "web" /\ pc' \in Positions /\ pc' # pc
    \/ pc = "web" /\ dev.wifiConnected /\ loopGoesOn(dev, TRUE) /\ pc' = "timers"

NextLive ==
    \/ LiveBoot
    \/ LiveDelay
    \/ LiveTick
    \/ Recover
    \/ LiveHead
    \/ LiveBackoff
    \/ LivePoll
    \/ LivePing
    \/ LiveFirmware

\* loop() is called again whenever it returns, and every iteration takes time
\* (delay(50) or delay(100) ends each of them)
SpecLive == InitLive /\ [][NextLive]_vars /\ WF_pc(LiveRun) /\ SF_vars(LiveTick)

(***************************************************************************)
(* checkForFirmwareUpdate called on its own                                *)
(***************************************************************************)
\* the globals checkForFirmwareUpdate and performFirmwareUpdate read, in every
\* combination: a configured device, with or without a valid status
FirmwareStates ==
    {[d EXCEPT !.currentStatus = cur] :
        d \in {f \in FetchStates : f.deviceConfigured /\ ~f.setupMode},
        cur \in {blankStatus(FALSE), RetainedStatus}}

InitFirmware ==
    /\ pc = "check"
    /\ now = LongStep
    /\ wifiUp = TRUE
    /\ env = "idle"
    /\ \E d \in FirmwareStates :
          dev = IF d.currentStatus.isValid
                THEN Start(showRoomStatus(d, d.currentStatus))
                ELSE Start(showError(d, "Cannot reach server", TRUE))
    /\ boots = 0
    /\ picked = 0
    /\ callIn = <<>>
    /\ callOut = <<>>

\* checkForFirmwareUpdate(); callIn keeps the state it was called in, the
\* server's reply and what httpUpdate.update() returns
CallFirmware ==
    /\ pc = "check"
    /\ \E fwReply \in FirmwareReplies, ret \in OtaResults :
          /\ dev' = checkForFirmwareUpdate(dev, fwReply, ret)
          /\ callIn' = <<dev, fwReply, ret>>
    /\ pc' = "checked"
    /\ UNCHANGED <<now, wifiUp, env, boots, picked, callOut>>

NextFirmware == CallFirmware

SpecFirmware == InitFirmware /\ [][NextFirmware]_vars

(***************************************************************************)
(* ApiClient::getRoomStatus called on its own                              *)
(***************************************************************************)
\* the longest upcomingBookings array of the replies
MaxArr == 4

\* the elements of an upcomingBookings array: null, an object without an id,
\* two bookings
ArrEntries == {jNull, BookingObj("", "t1"), BookingObj("b1", "t1"), BookingObj("b2", "t2")}

\* the sequences over S of length n
RECURSIVE SeqsOfLen(_, _)
SeqsOfLen(S, n) ==
    IF n = 0 THEN {<<>>}
    ELSE {Append(q, e) : q \in SeqsOfLen(S, n - 1), e \in S}

\* the replies to GET /status: the failures, and status documents with every
\* upcomingBookings array of up to MaxArr elements
StatusReplies ==
    FailReplies \cup {FailReply("garbage", "")} \cup
    {OkReply(RoomObj(id, "A", FALSE, <<>>), FALSE, BookingObj("b0", "t1"), arr) :
        id \in {"", "r1"},
        arr \in UNION {SeqsOfLen(ArrEntries, n) : n \in 0..MaxArr}}

InitStatus ==
    /\ pc = "parse"
    /\ now = 0
    /\ wifiUp = TRUE
    /\ env = "idle"
    /\ dev = Ram(ClearedPrefs)
    /\ boots = 0
    /\ picked = 0
    /\ callIn \in {<<reply, junk>> : reply \in StatusReplies, junk \in BOOLEAN}
    /\ callOut = <<>>

\* getRoomStatus() on the reply callIn[1], the stack holding callIn[2];
\* callOut keeps the RoomStatus returned
CallStatus ==
    /\ pc = "parse"
    /\ callOut' = <<getRoomStatus(callIn[1], callIn[2])>>
    /\ pc' = "parsed"
    /\ UNCHANGED <<dev, now, wifiUp, env, boots, picked, callIn>>

NextStatus == CallStatus

SpecStatus == InitStatus /\ [][NextStatus]_vars

(***************************************************************************)
(* The WiFi check of loop() called on its own                              *)
(***************************************************************************)
\* the time between two looks at the WiFi state: one checkpoint distance, or
\* a millisecond; at most WifiJitter single milliseconds are explored
RetryGap == 10000
WifiJitter == 2
\* the time explored after power-on
WifiHorizon == 7 * RetryGap + WifiJitter

InitWifi ==
    /\ pc = "loop"
    /\ now = 0
    /\ wifiUp = TRUE
    /\ env = "network"
    /\ \E d \in TapStates : dev = Start(d)
    /\ boots = 0
    /\ picked = 0
    /\ callIn = <<>>
    /\ callOut = <<0>>

\* time passes between two loop iterations
WifiWait ==
    /\ pc = "loop"
    /\ \E gap \in {1, RetryGap} :
          /\ now + gap <= WifiHorizon
          /\ gap = 1 => (now % RetryGap) < WifiJitter
          /\ now' = now + gap
    /\ dev' = Start(dev)
    /\ UNCHANGED <<pc, wifiUp, env, boots, picked, callIn, callOut>>

\* the access point goes away or comes back
WifiFlip ==
    /\ pc = "loop"
    /\ wifiUp' = ~wifiUp
    /\ dev' = Start(dev)
    /\ UNCHANGED <<pc, now, env, boots, picked, callIn, callOut>>

\* the WiFi check of one loop iteration; callOut counts the calls of
\* WiFi.reconnect() since the drop was detected: one in the branch that
\* detects the drop, one in the retry branch; the run ends with a restart
WifiCheck ==
    /\ pc = "loop"
    /\ \E in \in Choice(ValidInputs, wifiUp /\ ~dev.wifiConnected) :
          LET dn == loopWifi(Start(dev), now, wifiUp, in[1], in[2])
          IN  /\ dev' = dn
              /\ pc' = IF dn.restarted THEN "restarted" ELSE "loop"
              /\ callOut' = IF dn.restarted THEN callOut
                            ELSE IF dn.wifiConnected THEN <<0>>
                            ELSE IF dev.wifiConnected THEN <<1>>
                            ELSE IF dn.wifiRetryCount # dev.wifiRetryCount
                                 THEN <<callOut[1] + 1>>
                                 ELSE callOut
    /\ UNCHANGED <<now, wifiUp, env, boots, picked, callIn>>

NextWifi == WifiWait \/ WifiFlip \/ WifiCheck

SpecWifi == InitWifi /\ [][NextWifi]_vars

(***************************************************************************)
(* One iteration of loop() as a single step                                *)
(***************************************************************************)
\* the time explored after power-on
LoopHorizon == LongStep + 2 * TimeStep

\* the number of events op in a log
RECURSIVE CountEvents(_, _)
CountEvents(log, op) ==
    IF log = <<>> THEN 0
    ELSE (IF Head(log).op = op THEN 1 ELSE 0) + CountEvents(Tail(log), op)

\* what the server answers in these runs: nothing, or one status document
LoopInputs ==
    {<<FailReply("none", ""), FALSE>>,
     <<OkReply(RoomObj("r1", "A", FALSE, <<>>), TRUE, jNull, <<>>), FALSE>>}

InitLoop ==
    /\ pc = "loop"
    /\ now = 0
    /\ wifiUp = TRUE
    /\ env = "user"
    /\ \E d \in TapStates : dev = Start(d)
    /\ boots = 0
    /\ picked = 0
    /\ callIn = <<>>
    /\ callOut = <<0, {}>>

\* time passes between two loop iterations: a long pause, or up to two short
\* ones in a row
LoopWait ==
    /\ pc = "loop"
    /\ \E gap \in {TimeStep, LongStep} :
          /\ now + gap <= LoopHorizon
          /\ gap = TimeStep => (now % LongStep) + gap <= 2 * TimeStep
          /\ now' = now + gap
    /\ dev' = Start(dev)
    /\ UNCHANGED <<pc, wifiUp, env, boots, picked, callIn, callOut>>

\* loop() up to checkScreenTimeout(), with WiFi up and no web request
\* pending; callOut keeps, for the iteration under way, the number of presses
\* handleTouch() dispatched and the timer actions that ran, each read from
\* the log of its own part of loop()
IterHead ==
    /\ pc = "loop"
    /\ \E touch \in TouchInputs :
         \E bookReply \in Choice(BookReplies, dev.uiState = "UI_BOOKING_CONFIRM"),
            in \in Choice(LoopInputs, touch.touched) :
          LET d2 == loopWifi(loopWeb(Start(dev), now, NoRequest, "s1", in[1], in[2]),
                             now, TRUE, in[1], in[2])
              d3 == loopTouch(Start(d2), now, touch, bookReply, in[1], in[2])
          IN  IF loopGoesOn(d2, TRUE)
              THEN /\ dev' = d3
                   /\ callOut' = <<CountEvents(d3.log, "press"), {}>>
                   /\ pc' = "timers"
              ELSE /\ dev' = d2
                   /\ callOut' = <<0, {}>>
                   /\ pc' = "loop"
    /\ UNCHANGED <<now, wifiUp, env, boots, picked, callIn>>

IterBackoff ==
    /\ pc = "timers"
    /\ dev.connectionLost
    /\ \E in \in Choice(LoopInputs, now - dev.lastConnectionRetry > CONNECTION_RETRY_INTERVAL) :
          dev' = loopBackoff(Start(dev), now, in[1], in[2])
    /\ pc' = "loop"
    /\ UNCHANGED <<now, wifiUp, env, boots, picked, callIn, callOut>>

IterPoll ==
    /\ pc = "timers"
    /\ ~dev.connectionLost
    /\ \E in \in Choice(LoopInputs, now - dev.lastStatusUpdate > STATUS_POLL_INTERVAL) :
          LET dn == loopPoll(Start(dev), now, in[1], in[2])
          IN  /\ dev' = dn
              /\ callOut' = <<callOut[1],
                              callOut[2] \cup (IF HasEvent(dn.log, "status")
                                               THEN {"poll"} ELSE {})>>
    /\ pc' = "ping"
    /\ UNCHANGED <<now, wifiUp, env, boots, picked, callIn>>

IterPing ==
    /\ pc = "ping"
    /\ LET dn == loopPing(Start(dev), now)
       IN  /\ dev' = dn
           /\ callOut' = <<callOut[1],
                           callOut[2] \cup (IF HasEvent(dn.log, "ping")
                                            THEN {"ping"} ELSE {})>>
    /\ pc' = "fw"
    /\ UNCHANGED <<now, wifiUp, env, boots, picked, callIn>>

\* the run ends when the update restarts the device
IterFirmware ==
    /\ pc = "fw"
    /\ \E fwReply \in Choice(FirmwareReplies, now - dev.lastFirmwareCheck > FIRMWARE_CHECK_INTERVAL),
          ret \in Choice(OtaResults, now - dev.lastFirmwareCheck > FIRMWARE_CHECK_INTERVAL) :
          LET dn == loopFirmware(Start(dev), now, fwReply, ret)
          IN  /\ dev' = dn
              /\ callOut' = <<callOut[1],
                              callOut[2] \cup (IF HasEvent(dn.log, "fwcheck")
                                               THEN {"firmware"} ELSE {})>>
              /\ pc' = IF dn.restarted THEN "restarted" ELSE "loop"
    /\ UNCHANGED <<now, wifiUp, env, boots, picked, callIn>>

NextLoop == LoopWait \/ IterHead \/ IterBackoff \/ IterPoll \/ IterPing \/ IterFirmware

SpecLoop == InitLoop /\ [][NextLoop]_vars

(***************************************************************************)
(* ApiClient::setApiUrl called on its own                                  *)
(***************************************************************************)
\* the longest URL tried, and the characters it is made of
MaxUrlLen == 4
UrlChars == {"h", ":", "/"}

InitUrl ==
    /\ pc = "set"
    /\ now = 0
    /\ wifiUp = TRUE
    /\ env = "admin"
    /\ dev = Ram(ClearedPrefs)
    /\ boots = 0
    /\ picked = 0
    /\ callIn \in {<<u>> : u \in UNION {SeqsOfLen(UrlChars, n) : n \in 0..MaxUrlLen}}
    /\ callOut = <<>>

\* apiClient.setApiUrl(callIn[1])
CallSetApiUrl ==
    /\ pc = "set"
    /\ dev' = setApiUrl(dev, callIn[1])
    /\ pc' = "done"
    /\ UNCHANGED <<now, wifiUp, env, boots, picked, callIn, callOut>>

NextUrl == CallSetApiUrl

SpecUrl == InitUrl /\ [][NextUrl]_vars

(***************************************************************************)
(* handleSaveConfig called on its own, with the request kept               *)
(***************************************************************************)
\* the forms posted to /save: those of the device runs, a form with a new
\* token, time zone and PIN, and a form without a token
SaveFormInputs ==
    SaveForms \cup { <<<<"h">>, "tok2", "CET", <<5, 6, 7, 8>>>>,
                     <<<<"h">>, "", "", <<>>>>,
                     <<<<"h">>, "tok", "", <<5, 6, 7>>>> }

\* the devices a save can meet: without or with a configuration after
\* setup(), and then with or without a session
SaveStates ==
    LET booted == TapStates \cup
                  {setup(Ram(ClearedPrefs), 0, TRUE, FirmwareReply("ok", FALSE, FALSE),
                         "HTTP_UPDATE_NO_UPDATES", FailReply("none", ""), FALSE)}
    IN  {[d EXCEPT !.sessionToken = s, !.log = <<>>] :
            d \in booted, s \in {""} \cup SessionTokens}

InitSave ==
    /\ pc = "save"
    /\ now = TimeStep
    /\ wifiUp = TRUE
    /\ env = "admin"
    /\ dev \in SaveStates
    /\ boots = 0
    /\ picked = 0
    /\ callIn = <<>>
    /\ callOut = <<>>

\* handleSaveConfig(); callIn keeps the state it was called in and the request
CallSave ==
    /\ pc = "save"
    /\ \E c \in Credentials, f \in SaveFormInputs, in \in StatusInputs :
         LET req == Request("POST /save", <<>>, c[1], c[2], f[1], f[2], f[3], f[4])
         IN  /\ dev' = handleSaveConfig(dev, now, req, in[1], in[2])
             /\ callIn' = <<dev, req>>
    /\ pc' = "saved"
    /\ UNCHANGED <<now, wifiUp, env, boots, picked, callOut>>

NextSave == CallSave

SpecSave == InitSave /\ [][NextSave]_vars

(***************************************************************************)
(* Properties                                                              *)
(***************************************************************************)

\* the running step ended in a status fetch that returned an invalid status
FetchFailed ==
    /\ Len(dev.log) > 0
    /\ dev.log[Len(dev.log)].op = "status"
    /\ ~dev.currentStatus.isValid

\* the connection-lost backoff: the Error screen with its retry notice, the
\* device still configured and not in setup mode
InBackoff ==
    /\ dev.connectionLost
    /\ dev.uiState = "UI_ERROR"
    /\ dev.display.screen = "Error"
    /\ dev.display.retry
    /\ dev.deviceConfigured
    /\ ~dev.setupMode

\* C1 as stated: whenever a status fetch returns an invalid status while a
\* non-empty device token is stored, the device is in the connection-lost
\* backoff and does not treat itself as unconfigured.
C1_TokenStoredFailureEntersBackoff ==
    (FetchFailed /\ dev.deviceToken # "") => InBackoff

\* C1: whenever a status fetch returns an invalid status while both a server
\* URL and a device token are stored (ApiClient::isConfigured), the device is
\* in the connection-lost backoff and does not treat itself as unconfigured,
\* after any number of consecutive failed fetches.
C1_ConfiguredFailureEntersBackoff ==
    (FetchFailed /\ isConfigured(dev)) => InBackoff

\* a retry of the backoff failed again: with a user as the only actor, a step
\* that fetched and ended loop() early after time has passed is the retry
C1_RetryFailedAgain ==
    /\ FetchFailed
    /\ isConfigured(dev)
    /\ env = "user"
    /\ pc = "web"
    /\ now > 0
    /\ InBackoff

\* C2: a status fetch that fails while no device token is stored shows the
\* token-setup screen with the local address and enters setup mode; it does
\* not show the Error screen and does not touch the connection-lost backoff.
C2_NoTokenFailureShowsTokenSetup ==
    (pc = "fetched" /\ callIn[1].deviceToken = "" /\ ~dev.currentStatus.isValid)
        => /\ dev.uiState = "UI_TOKEN_SETUP"
           /\ dev.display = Display("TokenSetup", LocalIP, FALSE, <<>>, 0)
           /\ dev.buttons = <<>>
           /\ dev.setupMode
           /\ ~dev.deviceConfigured
           /\ dev.connectionLost = callIn[1].connectionLost
           /\ dev.lastConnectionRetry = callIn[1].lastConnectionRetry

\* a fetch without a token, called outside setup mode with a URL stored
C2_FetchedWithoutToken ==
    /\ pc = "fetched"
    /\ callIn[1].deviceToken = ""
    /\ Len(callIn[1].apiUrl) > 0
    /\ ~callIn[1].setupMode
    /\ ~callIn[1].connectionLost
    /\ dev.setupMode

\* C3 as stated: the persisted boot counter equals the number of boots since
\* the last successful status fetch (or the last entry into Safe Mode, which
\* resets it): it grows by one per boot and a boot whose fetch failed does
\* not clear it.
C3_BootCounterCountsBoots == dev.prefs.bootCount = boots

\* an API request that left the device, or an OTA download
Issued(e) ==
    \/ e.op \in {"status", "ping", "report", "fwcheck"} /\ e.n = 1
    \/ e.op \in {"quickBook", "ota"}

\* C4 as stated: while the device is in Safe Mode no status fetch, ping,
\* quick-book, firmware report, firmware check or OTA download is issued by
\* any step: setup(), a part of loop(), or a web request.
C4_SafeModeIssuesNothing ==
    dev.safeMode => \A i \in 1..Len(dev.log) : ~Issued(dev.log[i])

\* C5 as stated: in Safe Mode after setup() has returned the web endpoint is
\* running.
C5_SafeModeServesWeb ==
    (pc # "setup" /\ dev.safeMode) => dev.webServerRunning

\* C5: in Safe Mode after setup() has returned, whenever the device holds
\* its WiFi connection the web endpoint is running, and the loop iteration
\* has serviced it.
C5_SafeModeServesWebOnWifi ==
    (pc # "setup" /\ dev.safeMode /\ dev.wifiConnected)
        => /\ dev.webServerRunning
           /\ pc = "wifi" => HasEvent(dev.log, "handleClient")

\* Safe Mode after the WiFi connection was lost and came back
C5_SafeModeReconnected ==
    /\ dev.safeMode
    /\ dev.wifiConnected
    /\ dev.webServerRunning
    /\ dev.wifiLostTime > 0

\* C6: a step issues a quick-book request only when Confirm is pressed in
\* the BookingConfirm state; the request carries the duration last selected
\* in the QuickBookMenu (the one the confirm screen shows), and the result
\* screen and then a status fetch with redraw forced follow it; a press of
\* Cancel in BookingConfirm leads to the QuickBookMenu and issues nothing.
C6_QuickBookOnlyOnConfirm ==
    [][ /\ \A i \in 1..Len(dev'.log) :
              dev'.log[i].op = "quickBook"
                  => /\ pc = "touch"
                     /\ dev.uiState = "UI_BOOKING_CONFIRM"
                     /\ i = 2
                     /\ dev'.log[1].op = "press"
                     /\ dev.buttons[dev'.log[1].n + 1].label = "Confirm"
                     /\ dev'.log[i].n = picked
                     /\ dev'.log[i].n = dev.display.n
                     /\ Len(dev'.log) >= 4
                     /\ dev'.log[3].op = "showBookingResult"
                     /\ dev'.log[4].op = "status"
                     /\ dev'.log[4].flag
        /\ ( /\ pc = "touch"
             /\ dev.uiState = "UI_BOOKING_CONFIRM"
             /\ HasEvent(dev'.log, "press")
             /\ dev.buttons[dev'.log[1].n + 1].label = "Cancel" )
               => /\ dev'.uiState = "UI_QUICK_BOOK"
                  /\ Len(dev'.log) = 1
      ]_vars

\* a quick-book request has just been issued, and its refresh was valid
C6_Booked ==
    /\ HasEvent(dev.log, "quickBook")
    /\ dev.log[2].n = picked
    /\ picked > 0
    /\ dev.currentStatus.isValid

\* C7 as stated: the QuickBookMenu offers one button per entry of the
\* current room's quickBookDurations, labelled with that entry, in order,
\* and the button after the last one is Cancel.
C7_MenuShowsRoomDurations ==
    dev.uiState = "UI_QUICK_BOOK"
        => LET room == dev.currentStatus.room
           IN  /\ Len(dev.buttons) = room.quickBookDurationCount + 1
               /\ \A i \in 1..room.quickBookDurationCount :
                     dev.buttons[i].label = ToString(room.quickBookDurations[i])
               /\ dev.buttons[room.quickBookDurationCount + 1].label = "Cancel"

\* whether the step drew the room-status screen after its status fetch
Redrawn(log) ==
    \E i \in 1..Len(log) :
        /\ log[i].op = "status"
        /\ \E j \in (i + 1)..Len(log) : log[j].op = "showRoomStatus"

\* C8: after a valid status fetch the room-status screen is redrawn if and
\* only if a redraw was forced or the new status is not redraw-equal to the
\* retained one; a redraw clears the force flag and shows the new status;
\* a periodic poll that does not redraw leaves screen, buttons and UI state
\* as they were.
C8_RedrawIffForcedOrChanged ==
    [][ \A i \in 1..Len(dev'.log) :
            (dev'.log[i].op = "status" /\ dev'.currentStatus.isValid /\ ~dev'.restarted
             /\ pc' # "setup")
                => /\ Redrawn(dev'.log)
                       <=> ( \/ dev'.log[i].flag
                             \/ ~roomStatusesAreEqual(dev'.currentStatus, dev.lastStatus) )
                   /\ Redrawn(dev'.log)
                       => /\ ~dev'.forceRedraw
                          /\ dev'.uiState = "UI_ROOM_STATUS"
                          /\ dev'.display.status = <<dev'.currentStatus>>
                   /\ (pc = "timers" /\ ~Redrawn(dev'.log))
                       => /\ dev'.display = dev.display
                          /\ dev'.buttons = dev.buttons
                          /\ dev'.uiState = dev.uiState
                          /\ dev'.forceRedraw = dev.forceRedraw
      ]_vars

\* a periodic poll fetched a status that differs from the one on the screen
\* only in fields the comparison does not read, and did not redraw
C8_PollSkippedRedraw ==
    /\ pc = "ping"
    /\ Len(dev.log) = 1
    /\ dev.log[1].op = "status"
    /\ dev.currentStatus.isValid
    /\ dev.display.screen = "RoomStatus"
    /\ dev.display.status # <<dev.currentStatus>>

\* C9: roomStatusesAreEqual(A, B) is true exactly when both are valid and
\* agree in availability, room name, upcoming count and the ids of their
\* first upcomingCount upcoming slots, in order; no other field counts.
C9_EqualIffComparedFieldsAgree ==
    callOut # <<>>
        => LET A == callIn[1]
               B == callIn[2]
           IN  callOut[1] <=>
                   /\ A.isValid /\ B.isValid
                   /\ A.isAvailable = B.isAvailable
                   /\ A.room.name = B.room.name
                   /\ A.upcomingCount = B.upcomingCount
                   /\ \A i \in 1..A.upcomingCount :
                         A.upcomingBookings[i].id = B.upcomingBookings[i].id

\* two statuses that differ in fields the comparison does not read are equal
C9_EqualThoughDifferent ==
    /\ callOut # <<>>
    /\ callOut[1]
    /\ callIn[1].upcomingCount = 2
    /\ callIn[1].currentBooking # callIn[2].currentBooking
    /\ callIn[1].upcomingBookings # callIn[2].upcomingBookings

\* C10 as stated: roomStatusesAreEqual(A, A) is true for every A, and
\* roomStatusesAreEqual(A, B) = roomStatusesAreEqual(B, A) for every A, B.
C10_ReflexiveAndSymmetric ==
    callOut # <<>> => (callOut[3] /\ callOut[1] = callOut[2])

\* C10: roomStatusesAreEqual(A, B) = roomStatusesAreEqual(B, A) for every A
\* and B, and roomStatusesAreEqual(A, A) is true for every valid A, and
\* false for every invalid A.
C10_SymmetricAndReflexiveOnValid ==
    callOut # <<>>
        => /\ callOut[1] = callOut[2]
           /\ callOut[3] <=> callIn[1].isValid

\* a valid A compared with itself and, both ways, with an invalid B that
\* agrees with it in every compared field
C10_ValidAgainstInvalid ==
    /\ callOut # <<>>
    /\ callIn[1].isValid
    /\ ~callIn[2].isValid
    /\ callIn[1].isAvailable = callIn[2].isAvailable
    /\ callIn[1].room.name = callIn[2].room.name
    /\ callIn[1].upcomingCount = callIn[2].upcomingCount
    /\ callIn[1].upcomingBookings = callIn[2].upcomingBookings
    /\ callOut[3]
    /\ ~callOut[1]
    /\ ~callOut[2]

(***************************************************************************)
(* C11: a touch read less than 300 ms after the last accepted touch is     *)
(* never dispatched as a button press: the step that reads it leaves the   *)
(* UI state, the buttons and the display as they were and issues no API    *)
(* call, and any two dispatched presses are at least 300 ms apart.         *)
(***************************************************************************)
C11_TouchInWindowDropped ==
    [][/\ (now' = now /\ callIn'[1].touched /\ now - dev.lastTouchTime < 300)
          => /\ dev'.uiState = dev.uiState
             /\ dev'.buttons = dev.buttons
             /\ dev'.display = dev.display
             /\ dev'.selectedDuration = dev.selectedDuration
             /\ dev'.log = <<>>
             /\ callOut' = callOut
       /\ (now' = now /\ HasEvent(dev'.log, "press") /\ callOut # <<>>)
          => now - callOut[Len(callOut)] >= 300]_vars

\* a touch on a button was read inside the window and dropped
C11_DroppedOnButton ==
    /\ pc = "tap"
    /\ callIn[1].touched
    /\ checkButtonPress(dev.buttons, callIn[1].x, callIn[1].y) >= 0
    /\ dev.lastActivityTime = now
    /\ now - dev.lastTouchTime = ShortGap
    /\ dev.screenOn
    /\ dev.log = <<>>
    /\ Len(callOut) >= 1

(***************************************************************************)
(* C12: a touch read while the backlight is off only wakes the screen: the *)
(* backlight is switched on, the activity timer is re-armed, the last      *)
(* known status is redrawn without a fetch, and the touch is not           *)
(* dispatched as a button press, whatever screen was showing.              *)
(***************************************************************************)
\* the step reads a touch with the screen off
WakingTouch == now' = now /\ callIn'[1].touched /\ ~dev.screenOn

\* what every waking touch does: backlight, timers, no press, no API call
WokenOnly ==
    /\ dev'.screenOn
    /\ dev'.backlight
    /\ dev'.lastActivityTime = now
    /\ dev'.lastTouchTime = now
    /\ \A i \in 1..Len(dev'.log) : dev'.log[i].op = "showRoomStatus"
    /\ callOut' = callOut
    /\ dev'.currentStatus = dev.currentStatus
    /\ dev'.selectedDuration = dev.selectedDuration

\* the room-status screen is drawn with the status the device holds
RedrawnFromMemory ==
    /\ HasEvent(dev'.log, "showRoomStatus")
    /\ dev'.uiState = "UI_ROOM_STATUS"
    /\ dev'.display = Display("RoomStatus", "", FALSE, <<dev.currentStatus>>, 0)

\* C12 as stated: every waking touch redraws the room status
C12_WakeRedrawsStatus ==
    [][WakingTouch => (WokenOnly /\ RedrawnFromMemory)]_vars

\* C12, amended: a waking touch redraws the room status when the status of
\* the last fetch is valid, and otherwise leaves the display as it was
C12_WakeRedrawsValidStatus ==
    [][WakingTouch
         => /\ WokenOnly
            /\ dev.currentStatus.isValid => RedrawnFromMemory
            /\ ~dev.currentStatus.isValid
               => /\ dev'.log = <<>>
                  /\ dev'.uiState = dev.uiState
                  /\ dev'.buttons = dev.buttons
                  /\ dev'.display = dev.display]_vars

\* a touch on a button of the room-status screen woke the device and was
\* answered by a redraw alone
C12_WokenByTouchOnButton ==
    /\ pc = "tap"
    /\ callIn[1].touched
    /\ dev.log = <<Event("showRoomStatus", 0, FALSE)>>
    /\ checkButtonPress(dev.buttons, callIn[1].x, callIn[1].y) >= 0
    /\ dev.screenOn
    /\ dev.lastTouchTime = now
    /\ now > SCREEN_TIMEOUT_MS

(***************************************************************************)
(* C13: while the connection-lost backoff is active the main loop runs no  *)
(* periodic poll, no ping and no firmware check; the only status fetches   *)
(* are backoff retries, each more than CONNECTION_RETRY_INTERVAL after the *)
(* previous failure or retry, or a fetch the user starts with Retry.       *)
(***************************************************************************)
\* the step issues a ping, a version report, a firmware check or a download
TimerCalls(log) ==
    \E i \in 1..Len(log) : log[i].op \in {"ping", "report", "fwcheck", "ota"}

\* the step is the retry of the connection-lost branch, and it is due
DueRetry ==
    /\ pc = "timers"
    /\ now - dev.lastConnectionRetry > CONNECTION_RETRY_INTERVAL
    /\ dev'.restarted \/ dev'.lastConnectionRetry = now

\* C13 as stated
C13_BackoffFetchesOnlyRetries ==
    [][dev.connectionLost
         => /\ ~TimerCalls(dev'.log)
            /\ HasEvent(dev'.log, "status")
               => (DueRetry \/ (pc = "touch" /\ HasEvent(dev'.log, "press")))]_vars

\* C13, amended: an iteration that reaches the timers with connectionLost set
\* runs the due retry and nothing else; the other fetches with connectionLost
\* set are Retry, the reconnection of WiFi and POST /save; the iteration whose
\* poll has just failed still runs its ping and firmware check
C13_BackoffSuppressesTimers ==
    [][dev.connectionLost
         => /\ pc = "timers"
               => /\ ~TimerCalls(dev'.log)
                  /\ pc' \in {"web", "setup"}
                  /\ HasEvent(dev'.log, "status") => DueRetry
                  /\ DueRetry => HasEvent(dev'.log, "status")
            /\ pc = "touch"
               => /\ ~TimerCalls(dev'.log)
                  /\ HasEvent(dev'.log, "status") => HasEvent(dev'.log, "press")
            /\ pc = "wifi"
               => /\ ~TimerCalls(dev'.log)
                  /\ HasEvent(dev'.log, "status") => (wifiUp /\ ~dev.wifiConnected)
            /\ pc = "web"
               => /\ ~TimerCalls(dev'.log)
                  /\ HasEvent(dev'.log, "status") => HasEvent(dev'.log, "handleClient")
            /\ pc \in {"ping", "fw"} => ~HasEvent(dev'.log, "status")]_vars

\* the second retry of a backoff has failed
C13_RetriedInBackoff ==
    /\ pc = "web"
    /\ dev.connectionLost
    /\ dev.deviceConfigured
    /\ dev.wifiConnected
    /\ dev.log = <<Event("status", 1, TRUE)>>
    /\ dev.lastConnectionRetry = now
    /\ now >= 2 * TimeStep

(***************************************************************************)
(* C14: in the connection-lost backoff, with WiFi connected and the server *)
(* answering every fetch with a valid status from some point on, the       *)
(* unattended device eventually leaves the backoff, shows the room-status  *)
(* screen and polls again.                                                 *)
(***************************************************************************)
\* the loop is at its connection-lost branch and the server has recovered
RecoveredInBackoff == env = "recovered" /\ pc = "timers" /\ dev.connectionLost

\* the backoff is over, the room status is on the screen and loop() is back
\* on the path of its periodic timers
BackoffLeft ==
    /\ ~dev.connectionLost
    /\ dev.currentStatus.isValid
    /\ dev.uiState = "UI_ROOM_STATUS"
    /\ dev.display = Display("RoomStatus", "", FALSE, <<dev.currentStatus>>, 0)
    /\ dev.wifiConnected /\ loopGoesOn(dev, TRUE)

\* the periodic status update of loop() has fetched
Polled == pc = "ping" /\ HasEvent(dev.log, "status")

\* C14 as stated
C14_BackoffEndsOnceServerRecovers ==
    /\ RecoveredInBackoff ~> BackoffLeft
    /\ RecoveredInBackoff ~> Polled

\* C14, amended: the backoff ends with the room status on the screen, and
\* the periodic poll fetches again unless a firmware update restarts the
\* device first
C14_BackoffEndsPollsUnlessUpdated ==
    /\ RecoveredInBackoff ~> BackoffLeft
    /\ RecoveredInBackoff ~> (Polled \/ HasEvent(dev.log, "restart"))

\* a retry of the backoff has just brought the room status back
C14_RetrySucceeded ==
    /\ env = "recovered"
    /\ pc = "delay"
    /\ BackoffLeft
    /\ dev.log = <<Event("status", 1, TRUE), Event("showRoomStatus", 0, FALSE)>>
    /\ dev.lastConnectionRetry = now
    /\ now >= TimeStep

(***************************************************************************)
(* C15: after a WiFi drop was detected, the WiFi check of loop() restarts  *)
(* the device when WiFi is still down more than 60 s after the recorded    *)
(* drop time; it does not restart earlier, and not once WiFi is found      *)
(* connected again.                                                        *)
(***************************************************************************)
C15_RestartAfterSixtySecondsDown ==
    [][pc = "wifi"
         => /\ HasEvent(dev'.log, "restart")
               <=> (~wifiUp /\ ~dev.wifiConnected /\ now - dev.wifiLostTime > 60000)
            /\ (~wifiUp /\ dev.wifiConnected)
               => (dev'.wifiLostTime = now /\ ~dev'.wifiConnected)
            /\ (~wifiUp /\ ~dev.wifiConnected /\ ~HasEvent(dev'.log, "restart"))
               => dev'.wifiLostTime = dev.wifiLostTime
            /\ wifiUp => dev'.wifiConnected]_vars

\* a drop was detected by loop(), WiFi is still down more than 60 s later and
\* the WiFi check is about to run
C15_DownPastCeiling ==
    /\ pc = "wifi"
    /\ ~wifiUp
    /\ ~dev.wifiConnected
    /\ dev.wifiLostTime > 0
    /\ dev.display.text = "WiFi disconnected"
    /\ now - dev.wifiLostTime > 60000

(***************************************************************************)
(* C16: in the loop iteration that finds WiFi connected again after a      *)
(* drop, the web endpoint is started again and a status fetch with redraw  *)
(* forced is issued, whatever the cached status and the provisioning       *)
(* state, so that the 'WiFi disconnected' screen is replaced.              *)
(***************************************************************************)
C16_ReconnectRefreshes ==
    [][(pc = "wifi" /\ wifiUp /\ ~dev.wifiConnected
          /\ dev.display.text = "WiFi disconnected")
         => /\ dev'.webServerRunning
            /\ \E i \in 1..Len(dev'.log) :
                  dev'.log[i].op = "status" /\ dev'.log[i].flag
            /\ dev'.display.text # "WiFi disconnected"]_vars

(***************************************************************************)
(* C17: no status fetch, ping, quick-book, firmware check or OTA download  *)
(* is attempted while WiFi is not connected: a loop iteration that finds   *)
(* WiFi down runs the reconnection policy and returns, and no handler of   *)
(* the web endpoint fetches while the connection is down.                  *)
(***************************************************************************)
\* a request to the booking server or a firmware download is attempted
Attempted(log) ==
    \E i \in 1..Len(log) :
        \/ log[i].op \in {"status", "ping", "fwcheck"} /\ log[i].n = 1
        \/ log[i].op \in {"quickBook", "ota"}

C18_UpdateOnlyWhenOffered ==
    (pc = "checked" /\ HasEvent(dev.log, "ota"))
        => /\ callIn[2].kind = "ok"
           /\ callIn[2].updateAvailable
           /\ isConfigured(callIn[1])
           /\ \E i \in 2..Len(dev.log) :
                 /\ dev.log[i].op = "ota"
                 /\ dev.log[i - 1] = Event("fwcheck", 1, TRUE)
                 /\ \A j \in 1..Len(dev.log) : dev.log[j].op = "ota" => j = i

\* a download was started on an offer with a firmware description
C18_UpdateStarted ==
    /\ pc = "checked"
    /\ HasEvent(dev.log, "ota")
    /\ callIn[2] = FirmwareReply("ok", TRUE, TRUE)

(***************************************************************************)
(* C19: the OTA path restarts the device if and only if the update call    *)
(* reported success: on success it restarts after the completion screen,   *)
(* on failure or 'no update' it does not restart.                          *)
(***************************************************************************)
C19_RestartIffUpdateSucceeded ==
    pc = "checked"
        => /\ dev.restarted <=> (HasEvent(dev.log, "ota") /\ callIn[3] = "HTTP_UPDATE_OK")
           /\ dev.restarted <=> HasEvent(dev.log, "restart")
           /\ dev.restarted
              => /\ dev.display = Display("Loading", "Update complete!", FALSE, <<>>, 0)
                 /\ dev.log[Len(dev.log)].op = "restart"
                 /\ dev.log[Len(dev.log) - 1].op = "ota"

\* a download that succeeded has restarted the device
C19_RestartedAfterUpdate ==
    /\ pc = "checked"
    /\ dev.restarted
    /\ callIn[2] = FirmwareReply("ok", TRUE, TRUE)
    /\ callIn[3] = "HTTP_UPDATE_OK"
    /\ callIn[1].currentStatus.isValid

(***************************************************************************)
(* C20: after a firmware update attempt that ends in failure or 'no        *)
(* update', at boot or from the periodic timer, the device leaves the      *)
(* update or failure screen for the room-status screen with the last known *)
(* status, and polling and touch handling go on; it is never left stuck on *)
(* an update or failure screen.                                            *)
(***************************************************************************)
\* the step started a download that did not end in a restart
FailedAttempt == HasEvent(dev.log, "ota") /\ ~HasEvent(dev.log, "restart")

\* a screen of performFirmwareUpdate is on the display
UpdateScreenShown ==
    dev.display.text \in {"Updating firmware", "Update failed!", "No update available",
                          "Update complete!"}

\* the room-status screen shows the status the device holds
RoomStatusShown ==
    /\ dev.uiState = "UI_ROOM_STATUS"
    /\ dev.display = Display("RoomStatus", "", FALSE, <<dev.currentStatus>>, 0)

\* C20 as stated: once the attempt has ended, its screen is gone, and a
\* device whose loop() made the attempt is back on the room-status screen
C20_FailedUpdateFallsBack ==
    FailedAttempt => /\ ~UpdateScreenShown
                     /\ pc = "delay" => RoomStatusShown

\* C20, amended: the device does not restart and loop() goes on; with a valid
\* status the room-status screen is back at once; without one the message
\* stays only while the connection-lost backoff is armed, whose next retry
\* draws over it
C20_FailedUpdateNotStuck ==
    /\ [](FailedAttempt
            => /\ pc \in {"web", "delay"}
               /\ dev.wifiConnected /\ loopGoesOn(dev, TRUE)
               /\ dev.currentStatus.isValid => (RoomStatusShown /\ ~UpdateScreenShown)
               /\ pc = "web" => ~UpdateScreenShown
               /\ pc = "delay" => dev.lastFirmwareCheck = now)
    /\ [](UpdateScreenShown
            => /\ ~dev.currentStatus.isValid
               /\ dev.connectionLost
               /\ dev.lastConnectionRetry <= now
               /\ dev.wifiConnected /\ loopGoesOn(dev, TRUE))
    /\ (UpdateScreenShown /\ now + TimeStep <= LiveHorizon) ~> ~UpdateScreenShown

\* a download started by the periodic check failed and the room status is back
C20_BackOnRoomStatus ==
    /\ pc = "delay"
    /\ FailedAttempt
    /\ RoomStatusShown
    /\ dev.led \in {"green", "red"}
    /\ now >= LongStep

\* a download started by the periodic check failed and its message stays
C20_MessageStays ==
    /\ pc = "delay"
    /\ FailedAttempt
    /\ UpdateScreenShown

(***************************************************************************)
(* C21: whenever a firmware check, made at boot or by the periodic timer,  *)
(* reports updateAvailable = true, the device shows the update screen and  *)
(* performs the update, and on success restarts with no user interaction.  *)
(***************************************************************************)
\* the check of this step reported updateAvailable = true
OfferReported == Event("fwcheck", 1, TRUE) \in {dev.log[i] : i \in 1..Len(dev.log)}

\* C21 as stated
C21_OfferIsInstalled ==
    (pc = "checked" /\ OfferReported)
        => /\ HasEvent(dev.log, "ota")
           /\ callIn[3] = "HTTP_UPDATE_OK" => dev.restarted

\* C21, amended: the update is performed when the reply reports
\* updateAvailable = true and carries latestFirmware; without latestFirmware
\* the check ends with no update screen and no download
C21_DescribedOfferIsInstalled ==
    (pc = "checked" /\ OfferReported)
        => /\ HasEvent(dev.log, "ota") <=> callIn[2].hasLatestFirmware
           /\ ~callIn[2].hasLatestFirmware
              => /\ dev.display = callIn[1].display
                 /\ dev.uiState = callIn[1].uiState
                 /\ ~dev.restarted
           /\ callIn[2].hasLatestFirmware
              => /\ dev.log[Len(callIn[1].log) + 3] = Event("ota", 0, FALSE)
                 /\ dev.display.text \in
                       {"Update failed!", "No update available", "Update complete!"}
                    \/ dev.display.screen = "RoomStatus"
                 /\ callIn[3] = "HTTP_UPDATE_OK"
                    => /\ dev.restarted
                       /\ dev.display = Display("Loading", "Update complete!",
                                                FALSE, <<>>, 0)

\* an offer with latestFirmware was downloaded and the device restarted
C21_OfferInstalled ==
    /\ pc = "checked"
    /\ OfferReported
    /\ callIn[2].hasLatestFirmware
    /\ callIn[3] = "HTTP_UPDATE_OK"
    /\ dev.restarted

\* an offer without latestFirmware was reported and nothing was downloaded
C21_OfferIgnored ==
    /\ pc = "checked"
    /\ OfferReported
    /\ ~HasEvent(dev.log, "ota")

(***************************************************************************)
(* C22: every RoomStatus the status fetch returns has upcomingCount <= 3,  *)
(* upcomingCount equal to the number of valid entries of upcomingBookings, *)
(* the valid entries in slots 0..upcomingCount-1 in server order, every    *)
(* other slot invalid; bookings beyond the third are dropped.              *)
(***************************************************************************)
\* the ids of the valid bookings among the elements of arr, in order
RECURSIVE ValidIds(_)
ValidIds(arr) ==
    IF arr = <<>> THEN <<>>
    ELSE LET b == parseBooking(Head(arr))
         IN  (IF b.isValid THEN <<b.id>> ELSE <<>>) \o ValidIds(Tail(arr))

\* C22 as stated
C22_UpcomingCompacted ==
    pc = "parsed"
        => LET status == callOut[1]
               valid  == IF callIn[1].kind = "ok"
                         THEN ValidIds(SubSeq(callIn[1].upcomingBookings, 1,
                                  Min(MaxUpcoming, Len(callIn[1].upcomingBookings))))
                         ELSE <<>>
           IN  /\ status.upcomingCount <= MaxUpcoming
               /\ status.upcomingCount = countValid(status.upcomingBookings, MaxUpcoming)
               /\ status.upcomingCount = Len(valid)
               /\ \A i \in 1..MaxUpcoming :
                     /\ status.upcomingBookings[i].isValid <=> i <= status.upcomingCount
                     /\ i <= status.upcomingCount
                        => status.upcomingBookings[i].id = valid[i]

(***************************************************************************)
(* C23: in normal operation the backlight is switched off once no touch    *)
(* has occurred for more than SCREEN_TIMEOUT_MS; switching it off never    *)
(* changes the LED, which in the dark keeps showing the availability of    *)
(* the current status and follows every successful poll.                   *)
(***************************************************************************)
\* the colour setLedColor gives a status
LedOf(status) == IF status.isAvailable THEN "green" ELSE "red"

C23_DarkScreenKeepsLed ==
    /\ []((~dev.screenOn /\ dev.wifiConnected /\ dev.currentStatus.isValid)
            => dev.led = LedOf(dev.currentStatus))
    /\ [][/\ (pc = "touch" /\ pc' = "timers" /\ dev'.screenOn)
                => now - dev'.lastActivityTime <= SCREEN_TIMEOUT_MS
          /\ (dev.screenOn /\ ~dev'.screenOn)
                => /\ pc = "touch"
                   /\ now - dev.lastActivityTime > SCREEN_TIMEOUT_MS
                   /\ dev'.led = dev.led
                   /\ ~HasEvent(dev'.log, "press")
          /\ (~dev.screenOn /\ pc # "setup" /\ pc' # "setup" /\ FetchedValid(dev'))
                => dev'.led = LedOf(dev'.currentStatus)]_vars

\* a poll made in the dark brought a different status: the panel was redrawn
\* and the LED is red
C23_PolledInTheDark ==
    /\ pc = "ping"
    /\ ~dev.screenOn
    /\ HasEvent(dev.log, "status")
    /\ HasEvent(dev.log, "showRoomStatus")
    /\ dev.led = "red"

(***************************************************************************)
(* C24: the server URL and the device token the device holds change only   *)
(* through an accepted save on the provisioning endpoint or a factory      *)
(* reset; no touch, poll outcome, timer, reconnection or OTA outcome       *)
(* modifies them.                                                          *)
(***************************************************************************)
\* the URL and token of the API client, and those of the Preferences store
HeldConfig(d) == <<d.apiUrl, d.deviceToken>>
StoredConfig(d) == <<d.prefs.api_url, d.prefs.device_token>>

\* C24 as stated: the stored pair changes only while the web endpoint handles
\* a request, the pair in use changes only there or across a reset, and what
\* the running device uses is what the last save or reset stored
C24_ConfigChangesOnlyBySaveOrReset ==
    /\ [][StoredConfig(dev') # StoredConfig(dev)
            => (pc = "web" /\ HasEvent(dev'.log, "handleClient"))]_vars
    /\ [][(HeldConfig(dev') # HeldConfig(dev) /\ pc # "setup" /\ pc' # "setup")
            => (pc = "web" /\ HasEvent(dev'.log, "handleClient"))]_vars
    /\ [](pc # "setup" => HeldConfig(dev) = StoredConfig(dev))

(***************************************************************************)
(* C25: between detecting a WiFi drop and reconnection or restart,         *)
(* reconnection is attempted once at once and then at most 5 more times,   *)
(* the k-th retry only after more than k x 10 s since the drop;            *)
(* wifiRetryCount stays within 0..5 and is reset to 0 on every newly       *)
(* detected drop and on reconnection.                                      *)
(***************************************************************************)
C25_ReconnectSchedule ==
    /\ [](/\ dev.wifiRetryCount \in 0..5
          /\ callOut[1] \in 0..6
          /\ (pc = "loop" /\ ~dev.wifiConnected) => callOut[1] = dev.wifiRetryCount + 1
          /\ dev.wifiConnected => (dev.wifiRetryCount = 0 /\ callOut[1] = 0))
    /\ [][pc = "loop"
            => /\ (dev.wifiConnected /\ ~dev'.wifiConnected)
                  => /\ ~wifiUp
                     /\ dev'.wifiLostTime = now
                     /\ dev'.wifiRetryCount = 0
                     /\ callOut' = <<1>>
               /\ (~dev.wifiConnected /\ dev'.wifiConnected)
                  => /\ wifiUp
                     /\ dev'.wifiRetryCount = 0
               /\ (~dev.wifiConnected /\ ~dev'.wifiConnected /\ pc' = "loop")
                  => /\ dev'.wifiLostTime = dev.wifiLostTime
                     /\ dev'.wifiRetryCount \in {dev.wifiRetryCount, dev.wifiRetryCount + 1}
                     /\ dev'.wifiRetryCount = dev.wifiRetryCount + 1
                        => now - dev.wifiLostTime > dev'.wifiRetryCount * 10000
               /\ pc' = "restarted" => callOut[1] \in 1..6]_vars

\* the fifth retry was made: six calls of WiFi.reconnect() since the drop
C25_FifthRetry ==
    /\ pc = "loop"
    /\ ~dev.wifiConnected
    /\ dev.wifiRetryCount = 5
    /\ callOut = <<6>>
    /\ now - dev.wifiLostTime <= 60000

(***************************************************************************)
(* C26: while the device is in setup mode or unconfigured, an iteration of *)
(* loop() only services the web endpoint and checks connectivity: no touch *)
(* is dispatched, the screen timeout is not checked, and no status, ping   *)
(* or firmware timer runs.                                                 *)
(***************************************************************************)
\* loop() would return at its setupMode or deviceConfigured test
Unprovisioned(d) == d.setupMode \/ ~d.deviceConfigured

C26_SetupModeIdles ==
    /\ [](Unprovisioned(dev) => pc \in {"setup", "web", "wifi"})
    /\ [][(Unprovisioned(dev') /\ pc # "setup" /\ pc' # "setup")
            => /\ pc \in {"web", "wifi"}
               /\ pc' \in {"web", "wifi"}
               /\ ~HasEvent(dev'.log, "press")
               /\ ~HasEvent(dev'.log, "quickBook")
               /\ ~TimerCalls(dev'.log)
               /\ HasEvent(dev'.log, "status")
                  => (pc = "web" /\ HasEvent(dev'.log, "handleClient"))
               /\ dev'.screenOn = dev.screenOn]_vars

\* an unprovisioned device has gone through a WiFi drop and a reconnection
\* with every timer overdue and the screen timeout long past
C26_IdleWithTimersDue ==
    /\ pc = "web"
    /\ Unprovisioned(dev)
    /\ dev.wifiConnected
    /\ dev.webServerRunning
    /\ dev.display.text = "WiFi disconnected"
    /\ now - dev.lastStatusUpdate > STATUS_POLL_INTERVAL
    /\ now - dev.lastPing > PING_INTERVAL
    /\ now - dev.lastActivityTime > SCREEN_TIMEOUT_MS
    /\ dev.screenOn

(***************************************************************************)
(* C27: in one iteration of loop() at most one due timer action runs       *)
(* (status poll, ping or firmware check) and at most one touch is          *)
(* dispatched.                                                             *)
(***************************************************************************)
\* C27 as stated
C27_OneTimerOneTouch ==
    /\ callOut[1] <= 1
    /\ Cardinality(callOut[2]) <= 1

\* C27, amended: at most one touch is dispatched, and each of the three
\* timer actions runs at most once, every one that is due when loop() comes
\* to it, in the order poll, ping, firmware check; none of them runs in the
\* connection-lost branch
C27_EachTimerOnceOneTouch ==
    /\ [](/\ callOut[1] <= 1
          /\ callOut[2] \subseteq {"poll", "ping", "firmware"}
          /\ pc = "timers" => callOut[2] = {}
          /\ pc = "ping" => callOut[2] \subseteq {"poll"}
          /\ pc = "fw" => callOut[2] \subseteq {"poll", "ping"})
    /\ [][/\ (pc = "timers" /\ dev.connectionLost) => callOut' = callOut
          /\ (pc = "timers" /\ ~dev.connectionLost)
                => ("poll" \in callOut'[2]
                      <=> now - dev.lastStatusUpdate > STATUS_POLL_INTERVAL)
          /\ pc = "ping"
                => ("ping" \in callOut'[2] <=> now - dev.lastPing > PING_INTERVAL)
          /\ pc = "fw"
                => ("firmware" \in callOut'[2]
                      <=> now - dev.lastFirmwareCheck > FIRMWARE_CHECK_INTERVAL)
          /\ CountEvents(dev'.log, "status") <= 1
          /\ CountEvents(dev'.log, "ping") <= 1
          /\ CountEvents(dev'.log, "fwcheck") <= 1]_vars

\* poll, ping and firmware check all ran in one iteration, after a press
C27_AllTimersAtOnce ==
    /\ callOut = <<1, {"poll", "ping", "firmware"}>>
    /\ pc = "loop"

(***************************************************************************)
(* C28: after setApiUrl(u), for any string u, the stored server base URL   *)
(* does not end with a slash.                                              *)
(***************************************************************************)
\* whether the string s ends with a slash
EndsWithSlash(s) == Len(s) > 0 /\ s[Len(s)] = "/"

C28_NoTrailingSlash ==
    pc = "done" => ~EndsWithSlash(dev.apiUrl)

(***************************************************************************)
(* C29: on the room-status screen a press on button 0 opens the quick-book *)
(* menu when the current status is available and otherwise refreshes; a    *)
(* press on button 1 refreshes; a refresh is a status fetch with the       *)
(* redraw forced; no press on this screen issues a booking request.        *)
(***************************************************************************)
C29_RoomStatusPresses ==
    [][(pc = "touch" /\ dev.uiState = "UI_ROOM_STATUS" /\ HasEvent(dev'.log, "press"))
         => LET buttonIndex == dev'.log[1].n
                refreshed   == /\ Len(dev'.log) >= 2
                               /\ dev'.log[2].op = "status"
                               /\ dev'.log[2].flag
                               /\ CountEvents(dev'.log, "status") = 1
                               /\ dev'.lastStatusUpdate = now
                               /\ dev'.uiState \in {"UI_ROOM_STATUS", "UI_ERROR"}
            IN  /\ dev'.log[1].op = "press"
                /\ buttonIndex \in {0, 1}
                /\ dev.buttons[1].label = "Book" <=> dev.currentStatus.isAvailable
                /\ ~HasEvent(dev'.log, "quickBook")
                /\ (buttonIndex = 0 /\ dev.currentStatus.isAvailable)
                   => /\ dev'.uiState = "UI_QUICK_BOOK"
                      /\ dev'.log = <<Event("press", 0, FALSE)>>
                      /\ dev'.currentStatus = dev.currentStatus
                /\ (buttonIndex = 0 /\ ~dev.currentStatus.isAvailable) => refreshed
                /\ buttonIndex = 1 => refreshed]_vars

\* the quick-book menu was opened from the room-status screen
C29_MenuOpened ==
    /\ pc = "timers"
    /\ dev.uiState = "UI_QUICK_BOOK"
    /\ dev.log = <<Event("press", 0, FALSE)>>
    /\ picked = 0

(***************************************************************************)
(* C30: on the error screen a button press clears the connection-lost flag *)
(* and issues a status fetch at once with the redraw forced; afterwards    *)
(* the device shows the room status (the fetch succeeded) or is back in    *)
(* the connection-lost backoff or in setup mode (it failed); it is never   *)
(* left on an error screen with connectionLost false.                      *)
(***************************************************************************)
C30_RetryFetchesAtOnce ==
    [][(pc = "touch" /\ dev.uiState = "UI_ERROR" /\ HasEvent(dev'.log, "press"))
         => /\ Len(dev'.log) >= 2
            /\ dev'.log[1].op = "press"
            /\ dev'.log[2] = Event("status", 1, TRUE)
            /\ CountEvents(dev'.log, "status") = 1
            /\ dev'.lastStatusUpdate = now
            /\ ~(dev'.uiState = "UI_ERROR" /\ ~dev'.connectionLost)
            /\ dev'.currentStatus.isValid
               => /\ ~dev'.connectionLost
                  /\ ~dev'.setupMode
                  /\ dev'.uiState = "UI_ROOM_STATUS"
                  /\ dev'.display = Display("RoomStatus", "", FALSE,
                                            <<dev'.currentStatus>>, 0)
                  /\ dev'.led = LedOf(dev'.currentStatus)
            /\ ~dev'.currentStatus.isValid
               => \/ /\ dev'.connectionLost
                     /\ dev'.lastConnectionRetry = now
                     /\ dev'.uiState = "UI_ERROR"
                     /\ dev'.display.retry
                     /\ dev'.led = "off"
                  \/ /\ dev'.setupMode
                     /\ ~dev'.deviceConfigured
                     /\ dev'.uiState = "UI_TOKEN_SETUP"]_vars

\* Retry was pressed on a device that has had no valid status since it
\* booted, the fetch failed and the backoff is armed again
C30_RetryFailed ==
    /\ pc = "timers"
    /\ Len(dev.log) >= 2
    /\ dev.log[1].op = "press"
    /\ dev.log[2] = Event("status", 1, TRUE)
    /\ ~dev.lastStatus.isValid
    /\ dev.connectionLost
    /\ dev.uiState = "UI_ERROR"
    /\ dev.lastConnectionRetry = now
    /\ now > 0

(***************************************************************************)
(* C31: checkButtonPress returns the lowest index of a registered button   *)
(* whose rectangle contains the touch point, or -1 when none does; every   *)
(* screen draw clears the button list before it registers its own buttons, *)
(* so in every state the registered buttons, never more than 8, are        *)
(* exactly those of the screen drawn last.                                 *)
(***************************************************************************)
\* the labels of the buttons a screen registers, in registration order
ScreenLabels(display) ==
    CASE display.screen = "Error" -> <<"Retry">>
      [] display.screen = "BookingResult" -> <<"OK">>
      [] display.screen = "RoomStatus" ->
            IF display.status[1].isAvailable THEN <<"Book", "Refresh">> ELSE <<"Refresh">>
      [] display.screen = "QuickBook" -> <<"15", "30", "45", "60", "Cancel">>
      [] display.screen = "BookingConfirm" -> <<"Cancel", "Confirm">>
      [] OTHER -> <<>>

Labels(buttons) == [i \in 1..Len(buttons) |-> buttons[i].label]

\* the 0-based indices of the buttons whose rectangle contains the point
Containing(buttons, x, y) ==
    {i \in 0..(Len(buttons) - 1) :
        /\ buttons[i + 1].x <= x /\ x <= buttons[i + 1].x + buttons[i + 1].w
        /\ buttons[i + 1].y <= y /\ y <= buttons[i + 1].y + buttons[i + 1].h}

C31_ButtonsOfLastScreen ==
    /\ Len(dev.buttons) <= MaxButtons
    /\ Labels(dev.buttons) = ScreenLabels(dev.display)
    /\ \A touch \in TouchInputs :
         LET hit == Containing(dev.buttons, touch.x, touch.y)
             got == checkButtonPress(dev.buttons, touch.x, touch.y)
         IN  /\ hit = {} => got = -1
             /\ hit # {} => got \in hit /\ \A i \in hit : got <= i

\* a timer-driven poll failed while the room status was on screen: the error
\* screen replaced it and Retry is the only button left
C31_ErrorReplacedRoomStatus ==
    /\ pc = "ping"
    /\ HasEvent(dev.log, "status")
    /\ ~HasEvent(dev.log, "press")
    /\ dev.lastStatus.isValid
    /\ dev.display.screen = "Error"
    /\ Labels(dev.buttons) = <<"Retry">>
    /\ checkButtonPress(dev.buttons, 160, 210) = 0
    /\ checkButtonPress(dev.buttons, 295, 220) = -1

(***************************************************************************)
(* C32: a status response that cannot be parsed is treated exactly as a    *)
(* transport failure: the fetch returns an invalid status with the same    *)
(* generic message and the device takes the same transition (the           *)
(* connection-lost backoff when it is configured).                         *)
(***************************************************************************)
\* the fetch that was called sent its request (URL and token are set) and got
\* a body that is not JSON
Unparsable ==
    pc = "fetched" /\ isConfigured(callIn[1]) /\ callIn[2][1].kind = "garbage"

\* what the same call leaves when the request fails in transport
AfterTransportFailure ==
    updateRoomStatus(callIn[1], now, FailReply("none", ""), callIn[2][2])

C32_ParseFailureAsTransportFailure == Unparsable => dev = AfterTransportFailure

\* C32 as the code has it: the status is invalid and the transition is that
\* of a transport failure in every field but the message, which is 'Invalid
\* response from server' and not 'Failed to connect to server', in the
\* status and on the error screen
C32_ParseFailureSameTransitionOwnMessage ==
    Unparsable
        => /\ ~dev.currentStatus.isValid
           /\ dev.currentStatus.errorMessage = "Invalid response from server"
           /\ AfterTransportFailure.currentStatus.errorMessage
                = "Failed to connect to server"
           /\ [dev EXCEPT !.currentStatus.errorMessage = "", !.display.text = ""]
                = [AfterTransportFailure EXCEPT !.currentStatus.errorMessage = "",
                                                !.display.text = ""]
           /\ dev.connectionLost
           /\ dev.lastConnectionRetry = now
           /\ dev.display = Display("Error", "Invalid response from server", TRUE, <<>>, 0)
           /\ AfterTransportFailure.display
                = Display("Error", "Failed to connect to server", TRUE, <<>>, 0)

\* a configured device got an unparsable body and is in the backoff
C32_UnparsableEntersBackoff ==
    /\ Unparsable
    /\ ~callIn[1].connectionLost
    /\ dev.connectionLost
    /\ dev.uiState = "UI_ERROR"

(***************************************************************************)
(* C33: every successful status fetch, wherever it is made, clears the     *)
(* connection-lost and the setup-mode flag and sets the stored boot         *)
(* counter to 0.                                                            *)
(***************************************************************************)
C33_ValidFetchClearsFlagsAndCounter ==
    FetchedValid(dev)
        => /\ ~dev.connectionLost
           /\ ~dev.setupMode
           /\ dev.prefs.bootCount = 0
           /\ boots = 0

\* a retry in the connection-lost backoff succeeded
C33_RetryClearedConnectionLost ==
    /\ pc = "web"
    /\ FetchedValid(dev)
    /\ dev.log[1] = Event("status", 1, TRUE)
    /\ dev.lastConnectionRetry > 0
    /\ ~dev.connectionLost
    /\ dev.prefs.bootCount = 0

(***************************************************************************)
(* C34: a save request that is not authenticated (no session, or a wrong   *)
(* session token) or that fails validation (empty URL, no token at hand,   *)
(* new PIN shorter than 4) changes nothing: URL, token, time zone, PIN,    *)
(* setupMode, deviceConfigured and the display stay as they were; only an  *)
(* accepted save marks the device configured, leaves setup mode and        *)
(* triggers a status fetch with the redraw forced.                         *)
(***************************************************************************)
\* the request carries the token of the active session
Authenticated(d, req) ==
    /\ d.sessionToken # ""
    /\ \/ req.session = d.sessionToken
       \/ req.session = "" /\ req.cookie = d.sessionToken

\* the form passes the validation of the handler
ValidForm(d, req) ==
    /\ Len(req.apiUrl) > 0
    /\ req.token # "" \/ d.deviceToken # ""
    /\ Len(req.newpin) = 0 \/ Len(req.newpin) >= 4

Accepted(d, req) == Authenticated(d, req) /\ ValidForm(d, req)

C34_RejectedSaveChangesNothing ==
    pc = "saved"
        => LET d == callIn[1]
               req == callIn[2]
           IN  /\ ~Accepted(d, req) => dev = d
               /\ Accepted(d, req)
                  => /\ dev.log # <<>>
                     /\ dev.log[1] = Event("status", Sent(dev), TRUE)
                     /\ CountEvents(dev.log, "status") = 1
                     /\ dev.lastStatusUpdate = now
                     /\ dev.deviceToken = (IF req.token = "" THEN d.deviceToken
                                           ELSE req.token)
                     /\ dev.prefs.device_token = dev.deviceToken
                     /\ dev.prefs.timezone = (IF req.timezone = "" THEN "UTC0"
                                              ELSE req.timezone)
                     /\ dev.currentSetupPin = (IF Len(req.newpin) = 0
                                               THEN d.currentSetupPin ELSE req.newpin)
                     /\ dev.prefs.setup_pin = dev.currentSetupPin
                     /\ isConfigured(dev) => dev.deviceConfigured /\ ~dev.setupMode
                     /\ ~isConfigured(dev)
                        => /\ ~dev.deviceConfigured /\ dev.setupMode
                           /\ dev.uiState = "UI_TOKEN_SETUP"
                     /\ dev.uiState \in {"UI_ROOM_STATUS", "UI_ERROR", "UI_TOKEN_SETUP"}

\* an authenticated request with a three-digit PIN was turned down on a device
\* waiting for its configuration
C34_ShortPinTurnedDown ==
    /\ pc = "saved"
    /\ Authenticated(callIn[1], callIn[2])
    /\ Len(callIn[2].newpin) = 3
    /\ Len(callIn[2].apiUrl) > 0
    /\ callIn[2].token # ""
    /\ ~callIn[1].deviceConfigured
    /\ dev = callIn[1]

(***************************************************************************)
(* C35: at every boundary of the main loop, a UI state of RoomStatus,      *)
(* QuickBookMenu or BookingConfirm means currentStatus is valid, and a UI  *)
(* state of QuickBookMenu or BookingConfirm means currentStatus.isAvailable *)
(* is true; hence no quick-book request is sent while the status fetched   *)
(* last says the room is occupied, or while the last fetch failed.         *)
(***************************************************************************)
\* the UI states of the booking flow
BookingFlow == {"UI_QUICK_BOOK", "UI_BOOKING_CONFIRM"}

StatusBacksScreen ==
    /\ dev.uiState \in {"UI_ROOM_STATUS"} \cup BookingFlow => dev.currentStatus.isValid
    /\ dev.uiState \in BookingFlow => dev.currentStatus.isAvailable

C35_BookingFlowOnlyWhileAvailable ==
    /\ [](pc = "web" => StatusBacksScreen)
    /\ [][HasEvent(dev'.log, "quickBook")
            => /\ dev.uiState = "UI_BOOKING_CONFIRM"
               /\ dev.currentStatus.isValid
               /\ dev.currentStatus.isAvailable]_vars

\* the confirmation screen is up at a loop boundary, on an available status
\* that a poll after boot fetched
C35_ConfirmScreenAtBoundary ==
    /\ pc = "web"
    /\ dev.uiState = "UI_BOOKING_CONFIRM"
    /\ dev.currentStatus.isValid
    /\ dev.currentStatus.isAvailable
    /\ dev.lastStatusUpdate > 0

(***************************************************************************)
(* C36: at every boundary of the main loop at which the UI state is        *)
(* RoomStatus, the status drawn last is redraw-equal to currentStatus      *)
(* (same availability, room name, upcoming count and upcoming ids) and the *)
(* registered buttons match it (Book at index 0 exactly when               *)
(* currentStatus.isAvailable): a redraw skipped by the dirty check never   *)
(* leaves a stale availability or button layout on screen.                 *)
(***************************************************************************)
\* the ids of the upcoming bookings a status counts
CountedIds(status) ==
    [i \in 1..Min(status.upcomingCount, MaxUpcoming) |-> status.upcomingBookings[i].id]

ScreenMatchesStatus ==
    dev.uiState = "UI_ROOM_STATUS"
        => /\ dev.display.screen = "RoomStatus"
           /\ LET drawn == dev.display.status[1]
              IN  /\ roomStatusesAreEqual(drawn, dev.currentStatus)
                  /\ drawn.isAvailable = dev.currentStatus.isAvailable
                  /\ drawn.room.name = dev.currentStatus.room.name
                  /\ drawn.upcomingCount = dev.currentStatus.upcomingCount
                  /\ CountedIds(drawn) = CountedIds(dev.currentStatus)
           /\ dev.currentStatus.isAvailable
              <=> (dev.buttons # <<>> /\ dev.buttons[1].label = "Book")
           /\ Labels(dev.buttons) = IF dev.currentStatus.isAvailable
                                    THEN <<"Book", "Refresh">> ELSE <<"Refresh">>

C36_DrawnStatusNeverStale == pc = "web" => ScreenMatchesStatus

\* a poll skipped the redraw: the screen shows an older status that differs
\* from currentStatus (in the title of a booking) and is redraw-equal to it
C36_RedrawSkipped ==
    /\ pc = "web"
    /\ dev.uiState = "UI_ROOM_STATUS"
    /\ dev.display.status[1] # dev.currentStatus
    /\ roomStatusesAreEqual(dev.display.status[1], dev.currentStatus)

(***************************************************************************)
(* C37: at every boundary of the main loop, deviceConfigured implies that  *)
(* the server URL and the device token are both non-empty, setupMode       *)
(* implies not deviceConfigured, and the UI state TokenSetup implies not   *)
(* deviceConfigured; so no touch is dispatched while the token-setup       *)
(* screen is shown, and the 'Clear token' action of handleTouch is never   *)
(* reached.                                                                *)
(***************************************************************************)
ProvisioningConsistent ==
    /\ dev.deviceConfigured => Len(dev.apiUrl) > 0 /\ dev.deviceToken # ""
    /\ dev.setupMode => ~dev.deviceConfigured
    /\ dev.uiState = "UI_TOKEN_SETUP" => ~dev.deviceConfigured

C37_TokenSetupTakesNoTouch ==
    /\ [](pc = "web" => ProvisioningConsistent)
    /\ [][/\ pc' = "touch" => dev'.deviceConfigured /\ dev'.uiState # "UI_TOKEN_SETUP"
          /\ HasEvent(dev'.log, "press") => dev.uiState # "UI_TOKEN_SETUP"
          /\ (dev.deviceToken # "" /\ dev'.deviceToken = "")
                => pc' = "setup"]_vars

\* the device is in setup mode at a loop boundary with a token in its client:
\* the URL that was saved with it is empty
C37_SetupModeWithToken ==
    /\ pc = "web"
    /\ dev.setupMode
    /\ dev.uiState = "UI_TOKEN_SETUP"
    /\ dev.deviceToken # ""
    /\ Len(dev.apiUrl) = 0
    /\ ~dev.deviceConfigured

(***************************************************************************)
(* C38: a timer-driven status poll that runs while the UI is in            *)
(* QuickBookMenu or BookingConfirm leaves the UI state, the registered     *)
(* buttons and selectedDuration unchanged when the status it fetched is    *)
(* redraw-equal to the retained one, and otherwise replaces the screen     *)
(* with RoomStatus, Error or TokenSetup, which aborts the booking flow; a  *)
(* timer-driven action by itself never issues a quick-book request.        *)
(***************************************************************************)
\* the periodic status update ran in this step, in the booking flow
PolledInBookingFlow ==
    /\ pc = "timers" /\ pc' = "ping"
    /\ dev.uiState \in BookingFlow
    /\ HasEvent(dev'.log, "status")

C38_PollInBookingFlow ==
    [][/\ PolledInBookingFlow
          => IF roomStatusesAreEqual(dev'.currentStatus, dev.lastStatus)
             THEN /\ dev'.uiState = dev.uiState
                  /\ dev'.buttons = dev.buttons
                  /\ dev'.display = dev.display
                  /\ dev'.selectedDuration = dev.selectedDuration
                  /\ ~HasEvent(dev'.log, "showRoomStatus")
             ELSE /\ dev'.uiState \in {"UI_ROOM_STATUS", "UI_ERROR", "UI_TOKEN_SETUP"}
                  /\ dev'.uiState = "UI_ROOM_STATUS" <=> dev'.currentStatus.isValid
                  /\ dev'.display.screen \in {"RoomStatus", "Error", "TokenSetup"}
       /\ pc \in {"timers", "ping", "fw"} => ~HasEvent(dev'.log, "quickBook")]_vars

\* the periodic status update ran while the confirm screen was up and left it
C38_ConfirmScreenSurvivedPoll ==
    /\ pc = "ping"
    /\ HasEvent(dev.log, "status")
    /\ dev.uiState = "UI_BOOKING_CONFIRM"
    /\ dev.display.screen = "BookingConfirm"
    /\ dev.selectedDuration > 0
    /\ dev.lastStatusUpdate = now

(***************************************************************************)
(* C39: if every boot of a configured device restarts before setup()       *)
(* reaches its status fetch (the server offers an update at every boot     *)
(* and every download succeeds), the boot counter is never cleared and the *)
(* device enters Safe Mode no later than the boot after the one in which   *)
(* the counter reached the threshold; in that boot no firmware check and   *)
(* no download is attempted any more.                                      *)
(***************************************************************************)
\* the step was a setup() that ended in the restart after a download
UpdatedInSetup == pc = "setup" /\ HasEvent(dev'.log, "ota") /\ HasEvent(dev'.log, "restart")

\* the step made a firmware check or a download
FirmwareCalls(log) == HasEvent(log, "fwcheck") \/ HasEvent(log, "ota")

C39_UpdateLoopEndsInSafeMode ==
    /\ [](dev.prefs.bootCount <= BOOT_LOOP_THRESHOLD)
    /\ [][/\ UpdatedInSetup
             => /\ ~HasEvent(dev'.log, "status")
                /\ dev.prefs.bootCount < BOOT_LOOP_THRESHOLD
                /\ dev'.prefs.bootCount = dev.prefs.bootCount + 1
          /\ (pc = "setup" /\ dev.prefs.bootCount >= BOOT_LOOP_THRESHOLD)
             => /\ dev'.safeMode
                /\ pc' = "web"
                /\ dev'.prefs.bootCount = 0
                /\ ~FirmwareCalls(dev'.log)
                /\ ~HasEvent(dev'.log, "status")
          /\ (pc = "setup" /\ dev.prefs.bootCount < BOOT_LOOP_THRESHOLD)
             => ~dev'.safeMode
          /\ dev.safeMode
             => /\ ~FirmwareCalls(dev'.log)
                /\ dev'.safeMode \/ pc' = "setup"]_vars

\* a configured device on WiFi that nobody touches is in Safe Mode: its last
\* three boots each ended in the restart after a download
C39_SafeModeAfterUpdateLoop ==
    /\ env = "idle"
    /\ wifiUp
    /\ pc = "web"
    /\ dev.safeMode
    /\ isConfigured(dev)
    /\ dev.prefs.bootCount = 0
    /\ dev.log = <<>>
    /\ dev.uiState = "UI_ERROR"

(***************************************************************************)
(* C40: if setup() returns without a WiFi connection (WiFi was never       *)
(* connected since boot, so no drop time was recorded), the main loop      *)
(* issues no API call and does not service the web endpoint, and it        *)
(* restarts the device as soon as the uptime exceeds 60 s with WiFi still  *)
(* down, in Safe Mode as in normal mode.                                   *)
(***************************************************************************)
\* setup() returned without WiFi and loop() has not found it connected since
NeverConnected ==
    pc # "setup" /\ ~dev.wifiConnected /\ dev.uiState = "UI_WIFI_SETUP"

C40_NoWifiSinceBoot ==
    /\ [](NeverConnected
            => /\ dev.wifiLostTime = 0
               /\ ~dev.webServerRunning
               /\ ~dev.deviceConfigured
               /\ dev.log = <<>>)
    /\ [][NeverConnected
            => /\ \A i \in 1..Len(dev'.log) :
                     ~Issued(dev'.log[i]) /\ dev'.log[i].op # "handleClient"
               /\ pc = "wifi"
                  => /\ HasEvent(dev'.log, "restart") <=> (~wifiUp /\ now > 60000)
                     /\ HasEvent(dev'.log, "restart") => pc' = "setup"
                     /\ ~wifiUp => pc' \in {"web", "setup"}]_vars

\* a device that never had WiFi restarted out of Safe Mode: the boot that
\* found the counter at the threshold reset it to 0, and 60 s later the loop
\* restarted the device
C40_RestartedOutOfSafeMode ==
    /\ env = "idle"
    /\ ~wifiUp
    /\ pc = "setup"
    /\ dev.log = <<Event("restart", 0, FALSE)>>
    /\ dev.prefs.bootCount = 0

====
